---------------------------- MODULE Spec2Model ----------------------------
(***************************************************************************)
(* A model of the statistical core of the PTM x HLA-anchor coupling        *)
(* pipeline: the multiple-testing corrector (compare_groups.py), the exact *)
(* 2x2 test (stats_plot.py), the per-batch effect sizes (batch_stats.py),  *)
(* the meta-analysis engine (meta_merge.py) and the batch loop that drives *)
(* them (run_pipeline_batch.py).                                           *)
(*                                                                         *)
(* Real numbers are exact rationals [n |-> numerator, d |-> denominator],  *)
(* always in lowest terms with d > 0, so that equal numbers are equal      *)
(* records.  A square root is kept as the number under the root,           *)
(* [sq |-> q].  The IEEE specials have denominator 0: NaN is 0/0, +inf is   *)
(* 1/0 and -inf is -1/0.                                                   *)
(***************************************************************************)
EXTENDS Integers, Sequences, FiniteSets, TLC

VARIABLES
    pc,              \* which call of the component under study has been made
    p_values,        \* multiple_testing_correction: the raw p-values
    method,          \* multiple_testing_correction: the method argument
    corrected,       \* multiple_testing_correction: the returned list
    cell,            \* fisher_exact_test: the 2x2 table [a, b, c, d]
    p_value,         \* fisher_exact_test: the returned p-value
    fisher_locals,   \* fisher_exact_test: what the call evaluated on its way
    batch_data,      \* meta_merge: the table of per-batch effect sizes
    meta_method,     \* meta_analysis_by_mod: the method argument
    meta_results,    \* meta_analysis_by_mod: the returned table
    fixed_result,    \* fixed_effect(batch_data)
    random_result,   \* random_effect(batch_data)
    random_locals,   \* which of tau2 and I2 the random_effect call evaluated,
                     \* and tau2's divisor
    summary,         \* summarize_batch_heterogeneity(batch_data)
    batch_tables,    \* run_pipeline_batch: the records of each batch, in order
    batch_idx,       \* run_pipeline_batch: batches the Step 3 loop has finished
    per_batch_results,            \* run_pipeline_batch: rows of all_batch_df
    per_batch_group_comparisons,  \* run_pipeline_batch: rows of group_comp_df
    tumor_meta_results,
    normal_meta_results,
    group_meta_results,
    heterogeneity_summary,
    failed_batch,    \* position of the batch whose step raised (0: none)
    tumor_records,   \* coupling records of the tumor group
    normal_records,  \* coupling records of the normal group
    enrich_rows,     \* batch_enrich(tumor_records)
    group_comparison_rows,   \* batch_group_comparison(tumor_records, normal_records)
    compare_results, \* compare_groups(tumor_records, normal_records)
    enrich_locals,   \* a_corr .. se of each iteration of batch_enrich's loop
    group_comparison_locals, \* table .. group_se of each iteration of
                             \* batch_group_comparison's loop
    analysis_results,        \* enrichment_analysis(tumor_records)
    analysis_locals,         \* anchor .. other_non_anchor of each iteration of
                             \* enrichment_analysis's loop
    exported_results         \* compare_results as export_group_comparison_results
                             \* leaves them

mtcVars == <<p_values, method, corrected>>
fisherVars == <<cell, p_value, fisher_locals>>
metaVars == <<batch_data, meta_method, meta_results, fixed_result, random_result,
              random_locals, summary>>
pipeVars == <<batch_tables, batch_idx, per_batch_results, per_batch_group_comparisons,
              tumor_meta_results, normal_meta_results, group_meta_results,
              heterogeneity_summary, failed_batch>>
recordVars == <<tumor_records, normal_records, enrich_rows, group_comparison_rows,
                compare_results, enrich_locals, group_comparison_locals,
                analysis_results, analysis_locals, exported_results>>
vars == <<pc, mtcVars, fisherVars, metaVars, pipeVars, recordVars>>

-----------------------------------------------------------------------------
(* Bounds of the model *)

\* longest list of p-values handed to the corrector
MaxN == 4
\* p-values are drawn from the grid 0/PDen .. PDen/PDen
PDen == 4
\* largest total count a + b + c + d of a 2x2 table
MaxTotal == 10
\* most rows of a table of per-batch effect sizes
MaxRows == 3
\* batches in the pipeline's batch_tables
NBatches == 2
\* largest off-diagonal count of the nearly separated 2x2 tables
LargeSide == 23
\* most coupling records of one group
MaxRecords == 2
\* largest count of the 2x2 tables evaluated in float arithmetic
FloatSide == 2
\* most studies pooled in float arithmetic
MaxStudies == 2

-----------------------------------------------------------------------------
(* Exact rational arithmetic *)

Abs(x) == IF x < 0 THEN -x ELSE x

RECURSIVE GCD(_, _)
GCD(x, y) == IF y = 0 THEN x ELSE GCD(y, x % y)

\* the rational n/d (d # 0) in lowest terms, denominator positive
Rat(n, d) ==
    LET g == GCD(Abs(n), Abs(d))
        s == IF d < 0 THEN -1 ELSE 1
    IN  [n |-> (s * n) \div g, d |-> (s * d) \div g]

RInt(k) == [n |-> k, d |-> 1]
RZero == RInt(0)
ROne == RInt(1)

RAdd(x, y) ==
    LET g == GCD(x.d, y.d)
    IN  Rat(x.n * (y.d \div g) + y.n * (x.d \div g), (x.d \div g) * y.d)
RNeg(x) == [n |-> -x.n, d |-> x.d]
RSub(x, y) == RAdd(x, RNeg(y))
RMul(x, y) ==
    LET g1 == GCD(Abs(x.n), y.d)
        g2 == GCD(Abs(y.n), x.d)
    IN  Rat((x.n \div g1) * (y.n \div g2), (x.d \div g2) * (y.d \div g1))
\* x / y for y # 0
RDiv(x, y) == RMul(x, Rat(y.d, y.n))
RLt(x, y) == x.n * y.d < y.n * x.d
RLe(x, y) == x.n * y.d <= y.n * x.d
RMin(x, y) == IF RLt(y, x) THEN y ELSE x
RMax(x, y) == IF RLt(x, y) THEN y ELSE x

RECURSIVE RSum(_)
RSum(s) == IF s = <<>> THEN RZero ELSE RAdd(Head(s), RSum(Tail(s)))

-----------------------------------------------------------------------------
(* compare_groups.py: multiple_testing_correction *)

Methods == {"bonferroni", "fdr", "none"}

\* 1-based position of entry i after indexed_p.sort(key = p): the sort is
\* stable, so equal p-values keep the order of their original indices
SortRank(p, i) ==
    1 + Cardinality({j \in 1..Len(p) : RLt(p[j], p[i]) \/ (p[j] = p[i] /\ j < i)})

\* the loop "for i in range(n - 2, -1, -1)" over the list in ORIGINAL index
\* order; i is the 1-based index of the entry compared with its successor
RECURSIVE EnsureMonotone(_, _)
EnsureMonotone(c, i) ==
    IF i < 1 THEN c
    ELSE EnsureMonotone(IF RLt(c[i + 1], c[i]) THEN [c EXCEPT ![i] = c[i + 1]] ELSE c,
                        i - 1)

\* the Bonferroni branch without its min(., 1.0)
BonferroniUnclipped(p) ==
    LET n == Len(p) IN [i \in 1..n |-> RMul(p[i], RInt(n))]

Bonferroni(p) ==
    LET n == Len(p) IN [i \in 1..n |-> RMin(RMul(p[i], RInt(n)), ROne)]

FdrCandidates(p) ==
    LET n == Len(p)
    IN  [i \in 1..n |-> RMin(RDiv(RMul(p[i], RInt(n)), RInt(SortRank(p, i))), ROne)]

\* the 'fdr' branch without its monotonicity loop
FdrWithoutMonotonePass(p) == FdrCandidates(p)

Fdr(p) == EnsureMonotone(FdrCandidates(p), Len(p) - 1)

multiple_testing_correction(p, m) ==
    IF m = "bonferroni" THEN Bonferroni(p)
    ELSE IF m = "fdr" THEN Fdr(p)
    ELSE p

-----------------------------------------------------------------------------
(* IEEE-754 double arithmetic on the extended rationals, as numpy evaluates *)
(* it (a division by zero gives inf or nan, never an exception)             *)

NaN == [n |-> 0, d |-> 0]
PosInf == [n |-> 1, d |-> 0]
NegInf == [n |-> -1, d |-> 0]
IsFinite(x) == x.d # 0
IsNaN(x) == x = NaN
Sign(x) == IF x.n > 0 THEN 1 ELSE IF x.n < 0 THEN -1 ELSE 0
SignedInf(s) == IF s > 0 THEN PosInf ELSE IF s < 0 THEN NegInf ELSE NaN

XAdd(x, y) ==
    IF IsNaN(x) \/ IsNaN(y) THEN NaN
    ELSE IF IsFinite(x) /\ IsFinite(y) THEN RAdd(x, y)
    ELSE IF IsFinite(y) THEN x
    ELSE IF IsFinite(x) THEN y
    ELSE IF x = y THEN x ELSE NaN
XNeg(x) == [n |-> -x.n, d |-> x.d]
XSub(x, y) == XAdd(x, XNeg(y))
XMul(x, y) ==
    IF IsNaN(x) \/ IsNaN(y) THEN NaN
    ELSE IF IsFinite(x) /\ IsFinite(y) THEN RMul(x, y)
    ELSE SignedInf(Sign(x) * Sign(y))
XDiv(x, y) ==
    IF IsNaN(x) \/ IsNaN(y) THEN NaN
    ELSE IF IsFinite(x) /\ IsFinite(y)
         THEN IF y.n # 0 THEN RDiv(x, y) ELSE SignedInf(Sign(x))
    ELSE IF IsFinite(x) THEN RZero
    ELSE IF IsFinite(y) THEN (IF y.n < 0 THEN XNeg(x) ELSE x)
    ELSE NaN
\* x > y as Python evaluates it: False when either side is nan
XGt(x, y) ==
    /\ ~IsNaN(x) /\ ~IsNaN(y)
    /\ IF IsFinite(x) /\ IsFinite(y) THEN RLt(y, x)
       ELSE IF IsFinite(x) THEN y = NegInf
       ELSE IF IsFinite(y) THEN x = PosInf
       ELSE x = PosInf /\ y = NegInf
\* Python's max(0, x): x only when x > 0, so max(0, nan) is 0
PyMax0(x) == IF XGt(x, RZero) THEN x ELSE RZero

\* np.sqrt(x), kept as the number under the root
Sqrt(x) == [sq |-> x]

\* Series.sum(): pandas skips the nan entries (skipna = True); the sum of
\* nothing is 0, and +inf with -inf gives nan
RECURSIVE SkipNaSum(_)
SkipNaSum(s) ==
    IF s = <<>> THEN RZero
    ELSE IF IsNaN(Head(s)) THEN SkipNaSum(Tail(s))
    ELSE XAdd(Head(s), SkipNaSum(Tail(s)))

\* numpy's sum over an ndarray: a nan entry makes the sum nan
RECURSIVE NumpySum(_)
NumpySum(s) == IF s = <<>> THEN RZero ELSE XAdd(Head(s), NumpySum(Tail(s)))

-----------------------------------------------------------------------------
(* meta_merge.py: fixed_effect, random_effect, meta_analysis_by_mod *)

\* two-sided normal p-value 2 * (1 - ss.norm.cdf(abs(z))) in units of 1/10000,
\* tabulated at abs(z) = 0, 0.5, 1, ..., 4.5 (0 from 4.5 on)
NormTable == <<10000, 6171, 3173, 1336, 455, 124, 27, 5, 1, 0>>

\* z = estimate / se, kept as its sign and its square (se is a square root)
ZValue(logOR, se) ==
    LET q == XDiv(XMul(logOR, logOR), se.sq)
    IN  IF IsNaN(logOR) \/ IsNaN(q) THEN [sgn |-> 0, sq |-> NaN]
        ELSE [sgn |-> Sign(logOR), sq |-> q]

\* 2 * (1 - ss.norm.cdf(abs(z))): the table entry for abs(z) rounded down to
\* the half unit below it
TwoSidedP(z) ==
    IF IsNaN(z.sq) THEN NaN
    ELSE IF ~IsFinite(z.sq) THEN RZero
    ELSE LET h == CHOOSE k \in 0..9 :
                     /\ k * k * z.sq.d <= 4 * z.sq.n
                     /\ (k < 9 => (k + 1) * (k + 1) * z.sq.d > 4 * z.sq.n)
         IN  Rat(NormTable[h + 1], 10000)

\* 1 / (df['SE'] ** 2 + tau2), one weight per row
Weights(df, tau2) == [i \in 1..Len(df) |-> XDiv(ROne, XAdd(df[i].SE.sq, tau2))]

\* np.sum(w * df['logOR']) / np.sum(w) on pandas Series
WeightedMean(df, w) ==
    XDiv(SkipNaSum([i \in 1..Len(df) |-> XMul(w[i], df[i].logOR)]), SkipNaSum(w))

\* np.sqrt(np.sum(w)): the reciprocal left out
PooledSEOfWeightSum(w) == Sqrt(SkipNaSum(w))

\* np.sqrt(1 / np.sum(w))
PooledSE(w) == Sqrt(XDiv(ROne, SkipNaSum(w)))

\* the tuple fixed_effect returns, from its locals pooled_logOR and pooled_SE
FixedResult(pooled_logOR, pooled_SE) ==
    [logOR |-> pooled_logOR, SE |-> pooled_SE, z |-> ZValue(pooled_logOR, pooled_SE),
     p_value |-> TwoSidedP(ZValue(pooled_logOR, pooled_SE))]

\* fixed_effect(df) for a table of k >= 1 rows
fixed_effect(df) ==
    FixedResult(WeightedMean(df, Weights(df, RZero)), PooledSE(Weights(df, RZero)))

\* np.sum((df['logOR'] - fixed) ** 2): the squared deviations without weights
CochranQUnweighted(df, w, fixed) ==
    SkipNaSum([i \in 1..Len(df) |->
        XMul(XSub(df[i].logOR, fixed), XSub(df[i].logOR, fixed))])

\* random_effect's locals, each from the locals computed before it:
\* Q = np.sum(w * (df['logOR'] - fixed) ** 2)
CochranQ(df, w, fixed) ==
    SkipNaSum([i \in 1..Len(df) |->
        XMul(w[i], XMul(XSub(df[i].logOR, fixed), XSub(df[i].logOR, fixed)))])

\* (Q - df_deg) / (np.sum(w) - np.sum(w ** 2) / np.sum(w)), not clipped at 0
Tau2Unclipped(Q, df_deg, w) ==
    XDiv(XSub(Q, RInt(df_deg)),
         XSub(SkipNaSum(w),
              XDiv(SkipNaSum([i \in 1..Len(w) |-> XMul(w[i], w[i])]), SkipNaSum(w))))

\* tau2 = max(0, (Q - df_deg) / (np.sum(w) - np.sum(w ** 2) / np.sum(w)))
Tau2(Q, df_deg, w) ==
    PyMax0(XDiv(XSub(Q, RInt(df_deg)),
                XSub(SkipNaSum(w),
                     XDiv(SkipNaSum([i \in 1..Len(w) |-> XMul(w[i], w[i])]),
                          SkipNaSum(w)))))

\* (Q - df_deg) / Q * 100 if Q > 0 else 0, not clipped at 0
ISquaredUnclipped(Q, df_deg) ==
    IF XGt(Q, RZero) THEN XMul(XDiv(XSub(Q, RInt(df_deg)), Q), RInt(100))
    ELSE RZero

\* I2 = max(0, (Q - df_deg) / Q) * 100 if Q > 0 else 0
ISquared(Q, df_deg) ==
    IF XGt(Q, RZero) THEN XMul(PyMax0(XDiv(XSub(Q, RInt(df_deg)), Q)), RInt(100))
    ELSE RZero

\* the tuple random_effect returns for k >= 2, with z and p of the pooled estimate
RandomResult(random, se_re, I2, tau2, Q, df_deg) ==
    [logOR |-> random, SE |-> se_re, I2 |-> I2, tau2 |-> tau2, Q |-> Q,
     p_value |-> TwoSidedP(ZValue(random, se_re)), df_deg |-> df_deg]

\* random and se_re under w_star = 1 / (df['SE'] ** 2 + tau2)
RandomPooled(df, w_star, tau2, Q, df_deg) ==
    RandomResult(WeightedMean(df, w_star), PooledSE(w_star), ISquared(Q, df_deg),
                 tau2, Q, df_deg)
RandomFromTau2(df, tau2, Q, df_deg) == RandomPooled(df, Weights(df, tau2), tau2, Q, df_deg)
RandomFromQ(df, w, Q, df_deg) == RandomFromTau2(df, Tau2(Q, df_deg, w), Q, df_deg)

\* random_effect(df); df_deg is the local of that name (0 where the code
\* returns before computing it)
random_effect(df) ==
    IF Len(df) = 0
    THEN [logOR |-> NaN, SE |-> Sqrt(NaN), I2 |-> RZero, tau2 |-> RZero,
          Q |-> RZero, p_value |-> ROne, df_deg |-> 0]
    ELSE IF Len(df) = 1
    THEN [logOR |-> df[1].logOR, SE |-> df[1].SE, I2 |-> RZero, tau2 |-> RZero,
          Q |-> RZero, p_value |-> ROne, df_deg |-> 0]
    ELSE RandomFromQ(df, Weights(df, RZero),
                     CochranQ(df, Weights(df, RZero),
                              WeightedMean(df, Weights(df, RZero))),
                     Len(df) - 1)

\* the locals of a random_effect call that returned before the formulas
NoRandomLocals == [evaluated |-> {}, tau2_divisor |-> NaN]

\* w.sum() - (w ** 2).sum() / w.sum()
Tau2Divisor(w) ==
    XSub(SkipNaSum(w), XDiv(SkipNaSum([i \in 1..Len(w) |-> XMul(w[i], w[i])]),
                            SkipNaSum(w)))

\* the locals of a call that returns early only for the empty table
RandomLocalsWithoutSingleReturn(df) ==
    IF Len(df) = 0 THEN NoRandomLocals
    ELSE [evaluated |-> {"tau2", "I2"}, tau2_divisor |-> Tau2Divisor(Weights(df, RZero))]

\* which formulas random_effect(df) evaluated: none on the two early returns
RandomLocals(df) ==
    IF Len(df) = 0 \/ Len(df) = 1 THEN NoRandomLocals
    ELSE [evaluated |-> {"tau2", "I2"}, tau2_divisor |-> Tau2Divisor(Weights(df, RZero))]

\* the mod values of a table in the order groupby('mod') yields them (sorted)
ModOrder == <<"m1", "m2">>

\* group.dropna(subset = ['logOR', 'SE']) for the rows of one mod
ValidGroup(bd, mod) ==
    SelectSeq(bd, LAMBDA r : r.mod = mod /\ ~IsNaN(r.logOR) /\ ~IsNaN(r.SE.sq))

\* the smallest of a non-empty set of finite rationals
RMinOf(S) == CHOOSE x \in S : \A y \in S : RLe(x, y)
RMaxOf(S) == CHOOSE x \in S : \A y \in S : RLe(y, x)

\* statsmodels' multipletests(p, method = 'fdr_bh'): p * n / rank, running
\* minimum from the largest rank down, clipped to 1, in the original order;
\* one nan among the p-values makes every adjusted value nan
BenjaminiHochberg(p) ==
    LET n == Len(p)
    IN  IF \E i \in 1..n : IsNaN(p[i]) THEN [i \in 1..n |-> NaN]
        ELSE [i \in 1..n |->
                RMin(ROne,
                     RMinOf({RDiv(RMul(p[j], RInt(n)), RInt(SortRank(p, j))) :
                               j \in {j \in 1..n : SortRank(p, j) >= SortRank(p, i)}}))]

\* the dictionary appended to meta_results for one mod (the CI and OR columns
\* are functions of logOR and SE alone and are not carried)
RandomRow(mod, n_batches, r) ==
    [mod |-> mod, n_batches |-> n_batches, logOR |-> r.logOR, SE |-> r.SE,
     p_value |-> r.p_value, I2 |-> r.I2, tau2 |-> r.tau2, Q |-> r.Q,
     method |-> "random"]
FixedRow(mod, n_batches, f) ==
    [mod |-> mod, n_batches |-> n_batches, logOR |-> f.logOR, SE |-> f.SE,
     p_value |-> f.p_value, I2 |-> NaN, tau2 |-> NaN, Q |-> NaN, method |-> "fixed"]
MetaRow(mod, valid_group, m) ==
    IF m = "random" THEN RandomRow(mod, Len(valid_group), random_effect(valid_group))
    ELSE FixedRow(mod, Len(valid_group), fixed_effect(valid_group))

\* the loop over batch_data.groupby('mod'): a mod without a valid row is skipped
RECURSIVE MetaRows(_, _, _)
MetaRows(bd, m, k) ==
    IF k > Len(ModOrder) THEN <<>>
    ELSE LET vg == ValidGroup(bd, ModOrder[k])
         IN  (IF Len(vg) = 0 THEN <<>> ELSE <<MetaRow(ModOrder[k], vg, m)>>)
             \o MetaRows(bd, m, k + 1)

\* results_df['p_value'] * len(results_df), clipped from above at 1
PBonferroni(p, n) ==
    LET x == XMul(p, RInt(n)) IN IF XGt(x, ROne) THEN ROne ELSE x

\* the p_bonferroni and p_fdr columns
WithCorrections(rows) ==
    LET ps == [i \in 1..Len(rows) |-> rows[i].p_value]
        fdr == BenjaminiHochberg(ps)
    IN  [i \in 1..Len(rows) |->
            [mod |-> rows[i].mod, n_batches |-> rows[i].n_batches,
             logOR |-> rows[i].logOR, SE |-> rows[i].SE, p_value |-> rows[i].p_value,
             I2 |-> rows[i].I2, tau2 |-> rows[i].tau2, Q |-> rows[i].Q,
             method |-> rows[i].method,
             p_bonferroni |-> PBonferroni(rows[i].p_value, Len(rows)),
             p_fdr |-> fdr[i]]]

\* sort_values('p_value'): ascending, nan last, equal p-values in table order
PBefore(x, y) == ~IsNaN(x) /\ (IsNaN(y) \/ RLt(x, y))
RECURSIVE InsertByP(_, _)
InsertByP(sorted, r) ==
    IF sorted = <<>> THEN <<r>>
    ELSE IF PBefore(r.p_value, Head(sorted).p_value) THEN <<r>> \o sorted
    ELSE <<Head(sorted)>> \o InsertByP(Tail(sorted), r)
RECURSIVE SortByP(_)
SortByP(rows) ==
    IF rows = <<>> THEN <<>>
    ELSE InsertByP(SortByP(SubSeq(rows, 1, Len(rows) - 1)), rows[Len(rows)])

\* meta_analysis_by_mod returns normally only when some mod was pooled: with
\* an empty results_df, sort_values('p_value') raises KeyError
MetaRaises(meta_rows) == meta_rows = <<>>
ResultsOf(meta_rows) ==
    [raised |-> MetaRaises(meta_rows),
     results_df |-> IF MetaRaises(meta_rows) THEN <<>>
                    ELSE SortByP(WithCorrections(meta_rows))]
meta_analysis_by_mod(bd, m) == ResultsOf(MetaRows(bd, m, 1))

-----------------------------------------------------------------------------
(* batch_stats.py: summarize_batch_heterogeneity *)

GroupOf(bd, mod) == SelectSeq(bd, LAMBDA r : r.mod = mod)

\* np.min / np.max of an ndarray: nan when an entry is nan
NumpyMin(s) ==
    IF \E i \in 1..Len(s) : IsNaN(s[i]) THEN NaN ELSE RMinOf({s[i] : i \in 1..Len(s)})
NumpyMax(s) ==
    IF \E i \in 1..Len(s) : IsNaN(s[i]) THEN NaN ELSE RMaxOf({s[i] : i \in 1..Len(s)})

\* the summary entry of one mod; df is the local of that name
HeterogeneityOf(group) ==
    LET k == Len(group)
        logOR_values == [i \in 1..k |-> group[i].logOR]
        weights == [i \in 1..k |-> XDiv(ROne, group[i].SE.sq)]
        wsum == NumpySum(weights)
        weighted_mean ==
            XDiv(NumpySum([i \in 1..k |-> XMul(weights[i], logOR_values[i])]), wsum)
        Q == NumpySum([i \in 1..k |->
                 XMul(weights[i], XMul(XSub(logOR_values[i], weighted_mean),
                                       XSub(logOR_values[i], weighted_mean)))])
        df == k - 1
        I2 == IF XGt(Q, RZero)
              THEN XMul(PyMax0(XDiv(XSub(Q, RInt(df)), Q)), RInt(100))
              ELSE RZero
        w2sum == NumpySum([i \in 1..k |-> XMul(weights[i], weights[i])])
        tau2 == PyMax0(XDiv(XSub(Q, RInt(df)), XSub(wsum, XDiv(w2sum, wsum))))
    IN  [n_batches |-> k, Q |-> Q, I2 |-> I2, tau2 |-> tau2,
         mean_logOR |-> weighted_mean,
         range_logOR |-> <<NumpyMin(logOR_values), NumpyMax(logOR_values)>>,
         df |-> df]

\* the summary dictionary: one entry per mod with at least two rows
summarize_batch_heterogeneity(batch_results) ==
    [mod \in {ModOrder[k] : k \in {k \in 1..Len(ModOrder) :
                                     Len(GroupOf(batch_results, ModOrder[k])) >= 2}}
        |-> HeterogeneityOf(GroupOf(batch_results, mod))]

-----------------------------------------------------------------------------
(* stats_plot.py: fisher_exact_test *)

RECURSIVE factorial(_)
factorial(n) == IF n <= 1 THEN 1 ELSE n * factorial(n - 1)

combinations(n, k) ==
    IF k > n \/ k < 0 THEN 0
    ELSE IF k = 0 \/ k = n THEN 1
    ELSE factorial(n) \div (factorial(k) * factorial(n - k))

\* the point probability with the two rows' arguments exchanged
ProbNumeratorSwapped(row1_total, row2_total, a_test, c_test) ==
    combinations(row1_total, c_test) * combinations(row2_total, a_test)

\* the integer numerator of a point probability: the probability itself is
\* this number over combinations(total, col1_total)
ProbNumerator(row1_total, row2_total, a_test, c_test) ==
    combinations(row1_total, a_test) * combinations(row2_total, c_test)

\* prob <= observed_prob + 1e-10 for prob = num / den, observed_prob = obs / den:
\* (num - obs) * 10^10 <= den, written without a number above 2^31
WithinTolerance(num, obs, den) ==
    \/ num <= obs
    \/ (den \div (num - obs)) \div 100000 >= 100000

\* a loop over every a_test from 0 to row1_total
FeasibleAWholeRow(a, b, c, d) == 0..(a + b)

\* the a_test of the loop "for a_test in range(min_a, max_a + 1)" whose
\* b_test, c_test and d_test are all >= 0
FeasibleA(a, b, c, d) ==
    LET row1_total == a + b
        row2_total == c + d
        col1_total == a + c
        min_a == IF col1_total - row2_total > 0 THEN col1_total - row2_total ELSE 0
        max_a == IF row1_total < col1_total THEN row1_total ELSE col1_total
    IN  {a_test \in min_a..max_a :
            /\ row1_total - a_test >= 0
            /\ col1_total - a_test >= 0
            /\ row2_total - (col1_total - a_test) >= 0}

RECURSIVE SumOver(_, _, _, _)
\* p_value += prob over the a_test in S that pass the two-sided test
SumOver(S, row1_total, row2_total, ctx) ==
    IF S = {} THEN 0
    ELSE LET a_test == CHOOSE x \in S : TRUE
             num == ProbNumerator(row1_total, row2_total, a_test, ctx.col1_total - a_test)
         IN  (IF WithinTolerance(num, ctx.obs, ctx.den) THEN num ELSE 0)
             + SumOver(S \ {a_test}, row1_total, row2_total, ctx)

\* a two-sided p-value taken as twice the upper tail P(a' >= a), unclamped
fisher_doubled_tail(a, b, c, d) ==
    LET row1_total == a + b
        row2_total == c + d
        col1_total == a + c
        total == a + b + c + d
    IN  IF total = 0 THEN ROne
        ELSE LET den == combinations(total, col1_total)
                 p_num == SumOver({x \in FeasibleA(a, b, c, d) : x >= a}, row1_total,
                                  row2_total,
                                  [col1_total |-> col1_total, obs |-> den, den |-> den])
             IN  Rat(2 * p_num, den)

fisher_exact_test(a, b, c, d) ==
    LET row1_total == a + b
        row2_total == c + d
        col1_total == a + c
        total == a + b + c + d
    IN  IF total = 0 THEN ROne
        ELSE LET den == combinations(total, col1_total)
                 obs == ProbNumerator(row1_total, row2_total, a, c)
                 p_num == SumOver(FeasibleA(a, b, c, d), row1_total, row2_total,
                                  [col1_total |-> col1_total, obs |-> obs, den |-> den])
             IN  RMin(Rat(p_num, den), ROne)

\* the combinations(n, k) calls of one evaluation of the point probability
ProbCalls(row1_total, row2_total, total, col1_total, a_test) ==
    {<<row1_total, a_test>>, <<row2_total, col1_total - a_test>>, <<total, col1_total>>}

\* the arguments n for which combinations(n, k) calls factorial: it returns
\* before the factorials when k > n, k < 0, k = 0 or k = n
FactorialArgs(calls) ==
    UNION {{c[1], c[2], c[1] - c[2]} : c \in {c \in calls : 0 < c[2] /\ c[2] < c[1]}}

\* nothing evaluated: the state of the locals before the call, and after the
\* early return for total = 0
NoLocals ==
    [total |-> 0, den |-> 0, observed |-> 0, probs |-> <<>>, summed |-> {},
     combinations_calls |-> {}, factorial_args |-> {}]

\* the locals of the call once total > 0: the denominator of every point
\* probability, the numerator of observed_prob, the numerator of prob for each
\* a_test of the loop, the a_test added to p_value, and the calls made
LocalsOf(S, row1_total, row2_total, total, col1_total, a) ==
    [total |-> total,
     den |-> combinations(total, col1_total),
     observed |-> ProbNumerator(row1_total, row2_total, a, col1_total - a),
     probs |-> [a_test \in S |->
                  ProbNumerator(row1_total, row2_total, a_test, col1_total - a_test)],
     summed |-> {a_test \in S :
                   WithinTolerance(
                       ProbNumerator(row1_total, row2_total, a_test, col1_total - a_test),
                       ProbNumerator(row1_total, row2_total, a, col1_total - a),
                       combinations(total, col1_total))},
     combinations_calls |->
         UNION {ProbCalls(row1_total, row2_total, total, col1_total, a_test) :
                  a_test \in S \cup {a}},
     factorial_args |->
         FactorialArgs(UNION {ProbCalls(row1_total, row2_total, total, col1_total, a_test) :
                                a_test \in S \cup {a}})]

\* the locals of a call without the early return for total = 0
FisherLocalsNoEarlyReturn(a, b, c, d) ==
    LocalsOf(FeasibleA(a, b, c, d), a + b, c + d, a + b + c + d, a + c, a)

FisherLocals(a, b, c, d) ==
    IF a + b + c + d = 0 THEN NoLocals
    ELSE LocalsOf(FeasibleA(a, b, c, d), a + b, c + d, a + b + c + d, a + c, a)

-----------------------------------------------------------------------------
(* stats_plot.py: fisher_exact_test on Python's unbounded integers.  The    *)
(* factorials of a table of a few dozen counts exceed the machine integers  *)
(* of the definitions above; here a non-negative integer is the sequence of *)
(* its base-10000 digits, least significant first, 0 being <<>>.            *)

RECURSIVE Big(_)
Big(n) == IF n = 0 THEN <<>> ELSE <<n % 10000>> \o Big(n \div 10000)

\* digit i of x, 0 beyond its most significant digit
Digit(x, i) == IF 1 <= i /\ i <= Len(x) THEN x[i] ELSE 0

\* the number of digits of x without the zeros at its most significant end
Digits(x) ==
    IF \A i \in 1..Len(x) : x[i] = 0 THEN 0
    ELSE CHOOSE n \in 1..Len(x) : x[n] # 0 /\ \A i \in (n + 1)..Len(x) : x[i] = 0
Strip(x) == SubSeq(x, 1, Digits(x))

\* x * 10000^k
ShiftBy(x, k) == IF x = <<>> THEN <<>> ELSE [i \in 1..k |-> 0] \o x

\* there is a carry into digit i of x + y
CarryInto(x, y, i) ==
    \E j \in 1..(i - 1) :
        /\ Digit(x, j) + Digit(y, j) >= 10000
        /\ \A k \in (j + 1)..(i - 1) : Digit(x, k) + Digit(y, k) = 9999
AddDigit(x, y, i) ==
    (Digit(x, i) + Digit(y, i) + (IF CarryInto(x, y, i) THEN 1 ELSE 0)) % 10000
BigAdd(x, y) ==
    Strip([i \in 1..((IF Len(x) > Len(y) THEN Len(x) ELSE Len(y)) + 1) |->
              AddDigit(x, y, i)] \o <<>>)

\* x < y, from the most significant digit that differs
BigLt(x, y) ==
    IF Len(x) # Len(y) THEN Len(x) < Len(y)
    ELSE \E i \in 1..Len(x) :
            /\ x[i] < y[i]
            /\ \A k \in (i + 1)..Len(x) : x[k] = y[k]
BigLe(x, y) == ~BigLt(y, x)

\* there is a borrow from digit i of x - y, for x >= y
BorrowFrom(x, y, i) ==
    \E j \in 1..(i - 1) :
        /\ Digit(x, j) < Digit(y, j)
        /\ \A k \in (j + 1)..(i - 1) : Digit(x, k) = Digit(y, k)
SubDigit(x, y, i) ==
    (x[i] - Digit(y, i) - (IF BorrowFrom(x, y, i) THEN 1 ELSE 0) + 10000) % 10000
\* x - y for x >= y
BigSub(x, y) == Strip([i \in 1..Len(x) |-> SubDigit(x, y, i)] \o <<>>)

\* x * k for a machine integer 0 <= k <= 10000: the low parts of the digit
\* products plus their high parts one digit up
BigTimes(x, k) ==
    BigAdd(Strip([i \in 1..Len(x) |-> (x[i] * k) % 10000] \o <<>>),
           ShiftBy(Strip([i \in 1..Len(x) |-> (x[i] * k) \div 10000] \o <<>>), 1))

\* the one element of a set of one element: {Op(v) : v \in {e}} evaluates e
\* once, before Op uses it
The(S) == CHOOSE x \in S : TRUE

RECURSIVE BigMul(_, _)
BigMul(x, y) ==
    IF y = <<>> THEN <<>>
    ELSE The({BigAdd(BigTimes(x, Head(y)), ShiftBy(rest, 1)) :
                rest \in {BigMul(x, Tail(y))}})

\* the largest digit q in lo..hi with y * q <= rem
RECURSIVE QDigit(_, _, _, _)
QDigit(rem, y, lo, hi) ==
    IF lo = hi THEN lo
    ELSE IF BigLe(BigTimes(y, (lo + hi + 1) \div 2), rem)
         THEN QDigit(rem, y, (lo + hi + 1) \div 2, hi)
         ELSE QDigit(rem, y, lo, (lo + hi + 1) \div 2 - 1)

\* rem // y lies between the quotients of their most significant digits: the
\* two digits of rem at and above the most significant digit of y, over that
\* digit of y plus one and over that digit itself
TopOf(rem, y) == Digit(rem, Len(y)) + 10000 * Digit(rem, Len(y) + 1)
QLow(rem, y) == TopOf(rem, y) \div (y[Len(y)] + 1)
QHigh(rem, y) ==
    IF (TopOf(rem, y) + 1) \div y[Len(y)] > 9999 THEN 9999
    ELSE (TopOf(rem, y) + 1) \div y[Len(y)]

\* the digit rem // y for 0 < y and rem < 10000 * y
QDigitOf(rem, y) ==
    The({QDigit(r, d, QLow(r, d), QHigh(r, d)) : r \in {rem}, d \in {y}})

\* the factor that brings the most significant digit of y to 5000 or above
NormFactor(y) == 10000 \div (y[Len(y)] + 1)

\* long division: the digits of x from the most significant one down, the
\* first Len(y) - 1 of them making the first remainder
DivPut(q, rem, y, qd) ==
    [q |-> Strip(<<qd>> \o q), r |-> BigSub(rem, BigTimes(y, qd))]
DivDigit(q, rem, y) == DivPut(q, rem, y, QDigitOf(rem, y))
DivNext(prev, digit, y) == DivDigit(prev.q, Strip(<<digit>> \o prev.r), y)
RECURSIVE DivStep(_, _, _)
DivStep(x, y, i) ==
    IF i > Len(x) - Len(y) + 1
    THEN [q |-> <<>>, r |-> SubSeq(x, (IF i < 1 THEN 1 ELSE i), Len(x))]
    ELSE The({DivNext(prev, x[i], y) : prev \in {DivStep(x, y, i + 1)}})

\* x // y for y > 0, as (x * f) // (y * f)
BigDiv(x, y) ==
    The({DivStep(BigTimes(x, f), BigTimes(y, f), 1).q : f \in {NormFactor(y)}})

\* lo * (lo + 1) * ... * hi
RECURSIVE BigProduct(_, _)
BigProduct(lo, hi) ==
    IF lo > hi THEN Big(1)
    ELSE IF lo = hi THEN Big(lo)
    ELSE The({BigMul(low, high) :
                low \in {BigProduct(lo, (lo + hi) \div 2)},
                high \in {BigProduct((lo + hi) \div 2 + 1, hi)}})

\* factorial and combinations as above, on unbounded integers
FactorialBig(n) == IF n <= 1 THEN Big(1) ELSE BigProduct(2, n)

CombinationsBig(n, k) ==
    IF k > n \/ k < 0 THEN <<>>
    ELSE IF k = 0 \/ k = n THEN Big(1)
    ELSE The({BigDiv(of_n, BigMul(of_k, of_rest)) :
                of_n \in {FactorialBig(n)},
                of_k \in {FactorialBig(k)},
                of_rest \in {FactorialBig(n - k)}})

ProbNumeratorBig(row1_total, row2_total, a_test, c_test) ==
    BigMul(CombinationsBig(row1_total, a_test), CombinationsBig(row2_total, c_test))

\* x * 10^10
Times1e10(x) == ShiftBy(BigTimes(x, 100), 2)

\* prob <= observed_prob + 1e-10 for prob = num / den, observed_prob = obs / den
WithinToleranceBig(num, obs, den) == BigLe(Times1e10(num), BigAdd(Times1e10(obs), den))

RECURSIVE BigSumOver(_, _)
BigSumOver(probs, S) ==
    IF S = {} THEN <<>>
    ELSE LET x == CHOOSE x \in S : TRUE IN BigAdd(probs[x], BigSumOver(probs, S \ {x}))

\* the locals of the call as in LocalsOf, the integers unbounded
LocalsFromBig(S, total, probs, obs, den, calls) ==
    [total |-> total, den |-> den, observed |-> obs, probs |-> probs,
     summed |-> {a_test \in S : WithinToleranceBig(probs[a_test], obs, den)},
     combinations_calls |-> calls, factorial_args |-> FactorialArgs(calls)]

LocalsOfBig(S, row1_total, row2_total, total, col1_total, a) ==
    LocalsFromBig(S, total,
        [a_test \in S |->
            ProbNumeratorBig(row1_total, row2_total, a_test, col1_total - a_test)],
        ProbNumeratorBig(row1_total, row2_total, a, col1_total - a),
        CombinationsBig(total, col1_total),
        UNION {ProbCalls(row1_total, row2_total, total, col1_total, a_test) :
                 a_test \in S \cup {a}})

FisherLocalsBig(a, b, c, d) ==
    IF a + b + c + d = 0 THEN NoLocals
    ELSE LocalsOfBig(FeasibleA(a, b, c, d), a + b, c + d, a + b + c + d, a + c, a)

\* min(p_value, 1.0) as the fraction num / den, p_value being the sum of the
\* prob added in the loop
ClampedToOne(p_num, den) ==
    IF BigLt(den, p_num) THEN [num |-> den, den |-> den] ELSE [num |-> p_num, den |-> den]

\* the value fisher_exact_test returns, from the locals of the call
ReturnedFromLocals(locals) ==
    IF locals.total = 0 THEN [num |-> Big(1), den |-> Big(1)]
    ELSE ClampedToOne(BigSumOver(locals.probs, locals.summed), locals.den)

fisher_exact_test_big(a, b, c, d) == ReturnedFromLocals(FisherLocalsBig(a, b, c, d))

-----------------------------------------------------------------------------
(* stats_plot.py: fisher_exact_test in the arithmetic of Python's float.    *)
(* A double is m / 2^e with 2^52 <= m < 2^53, or zero; every division and   *)
(* every addition is rounded to the nearest double, ties to the even m.     *)

\* 8192^j for j = 0..20, each as its base-10000 digits, least significant first
PowersOf8192 ==
    <<<<1>>,
      <<8192>>,
      <<8864, 6710>>,
      <<3888, 5581, 5497>>,
      <<496, 2737, 5996, 4503>>,
      <<3232, 1910, 1474, 3488, 3689>>,
      <<6544, 9367, 6572, 4903, 3145, 3022>>,
      <<8448, 9824, 5497, 760, 7857, 8800, 2475>>,
      <<6016, 5128, 9472, 423, 5167, 6036, 2409, 2028>>,
      <<3072, 3504, 8825, 2975, 8411, 1144, 9473, 5349, 1661>>,
      <<5824, 7284, 7270, 8429, 5349, 8538, 3753, 6768, 1294, 1361>>,
      <<208, 5299, 1807, 6324, 5913, 7678, 1570, 6531, 5992, 372, 1115>>,
      <<3936, 9578, 7284, 7688, 4476, 3020, 7730, 3238, 1814, 2333, 4385, 913>>,
      <<3712, 6200, 8374, 6063, 3690, 3507, 6634, 2028, 2941, 3422, 3831, 2888, 748>>,
      <<8704, 3440, 4887, 4956, 3447, 2367, 8601, 8810, 4333, 5433, 6355, 1634, 9982, 612>>,
      <<3168, 7610, 7122, 3555, 1884, 3288, 1331, 8566, 3153, 686, 4611, 934, 3883, 1681, 502>>,
      <<2256, 3715, 9658, 8394, 6640, 6839, 6245, 3762, 6393, 2295, 3874, 5105, 301, 3933, 3761, 411>>,
      <<1152, 5128, 1379, 1560, 1757, 528, 4643, 3420, 4538, 5877, 7688, 3333, 9974, 9382, 3333, 9993, 336>>,
      <<7184, 9519, 968, 650, 4622, 6815, 5888, 443, 8098, 8101, 4910, 234, 9739, 5514, 1622, 5387, 698, 276>>,
      <<1328, 5533, 7654, 5593, 3956, 2266, 79, 3880, 9179, 25, 9357, 950, 2080, 8666, 1941, 1633, 2429, 1564, 226>>,
      <<8976, 7423, 6100, 4126, 2134, 6313, 9024, 5024, 7546, 2319, 2565, 65, 139, 3576, 7771, 9126, 9705, 4277, 2673, 185>>>>

\* 2^k for 0 <= k < 533
Pow2(k) ==
    IF k < 273 THEN BigTimes(PowersOf8192[k \div 13 + 1], 2^(k % 13))
    ELSE BigMul(PowersOf8192[21],
                BigTimes(PowersOf8192[(k - 260) \div 13 + 1], 2^(k % 13)))

\* long division of a dividend below 10000^5 * y, its quotient digits from
\* digit 4 down to digit 0
QuotientPut(st, shifted, qd) ==
    [q |-> <<qd>> \o st.q, r |-> BigSub(st.r, BigTimes(shifted, qd))]
QuotientStep(st, y, k) ==
    The({QuotientPut(st, shifted, QDigitOf(st.r, shifted)) :
            shifted \in {ShiftBy(y, k)}})
QuotientSteps(x, y) ==
    {QuotientStep(s0, y, 0) : s0 \in
        {QuotientStep(s1, y, 1) : s1 \in
            {QuotientStep(s2, y, 2) : s2 \in
                {QuotientStep(s3, y, 3) : s3 \in
                    {QuotientStep([q |-> <<>>, r |-> x], y, 4)}}}}}

\* x // y for 0 < y and x < 10000^5 * y, as (x * f) // (y * f)
Quotient(x, y) ==
    The({Strip(The(QuotientSteps(BigTimes(x, f), BigTimes(d, f))).q) :
            d \in {y}, f \in {NormFactor(y)}})

DoubleZero == [m |-> <<>>, e |-> 0]
DoubleOne == [m |-> Pow2(52), e |-> 52]

\* the float of the literal 1e-10: 7737125245533627 / 2^86
Tolerance == [m |-> <<3627, 4553, 1252, 7737>>, e |-> 86]

\* x * 2^k for k > 0, x itself for k <= 0
ScaleUp(x, k) == IF k > 0 THEN BigMul(Pow2(k), x) ELSE x

\* num * 2^e >= 2^52 * den
ReachesMantissa(num, den, e) ==
    BigLe(BigMul(Pow2(52), ScaleUp(den, -e)), ScaleUp(num, e))

\* the largest k in lo..hi with 2^k <= x, for 2^lo <= x
RECURSIVE BitLengthIn(_, _, _)
BitLengthIn(x, lo, hi) ==
    IF lo = hi THEN lo
    ELSE IF BigLe(Pow2((lo + hi + 1) \div 2), x)
         THEN BitLengthIn(x, (lo + hi + 1) \div 2, hi)
         ELSE BitLengthIn(x, lo, (lo + hi + 1) \div 2 - 1)

\* floor(log2(x)) for 1 <= x < 2^532
BitLength(x) == BitLengthIn(x, 0, 531)

\* num / den lies between 2^(bits - 1) and 2^(bits + 1): the smallest exponent
\* reaching the mantissa is 52 - bits or the one above it
ExponentNear(num, den, bits) ==
    IF ReachesMantissa(num, den, 52 - bits) THEN 52 - bits ELSE 53 - bits

\* the exponent of the double nearest to num / den > 0
ExponentOf(num, den) ==
    The({ExponentNear(num, den, of_num - of_den) :
            of_num \in {BitLength(num)}, of_den \in {BitLength(den)}})

\* a mantissa rounded up to 2^53 is 2^52 one exponent lower
Normalised(m, e) ==
    IF m = Pow2(53) THEN [m |-> Pow2(52), e |-> e - 1] ELSE [m |-> m, e |-> e]

\* q = scaled // den and twice the remainder: up when the remainder is above
\* half of den, or half of den with q odd
RoundUp(q, twice, den, e) ==
    IF BigLt(den, twice) \/ (twice = den /\ q[1] % 2 = 1)
    THEN Normalised(BigAdd(q, Big(1)), e)
    ELSE [m |-> q, e |-> e]
RoundQuotient(scaled, den, q, e) ==
    RoundUp(q, BigTimes(BigSub(scaled, BigMul(q, den)), 2), den, e)
RoundScaled(scaled, den, e) ==
    The({RoundQuotient(scaled, den, q, e) : q \in {Quotient(scaled, den)}})

\* the double nearest to num / den, ties to even
RoundAt(num, den, e) ==
    The({RoundScaled(scaled, below, e) :
            scaled \in {ScaleUp(num, e)}, below \in {ScaleUp(den, -e)}})
RoundNonZero(num, den) == The({RoundAt(num, den, e) : e \in {ExponentOf(num, den)}})
Round(num, den) ==
    The({IF n = <<>> THEN DoubleZero ELSE RoundNonZero(n, d) : n \in {num}, d \in {den}})

\* int / int
TrueDivide(num, den) == Round(num, den)

\* x at the scale 2^s, s >= x.e
AtScale(x, s) == BigMul(Pow2(s - x.e), x.m)
CommonScale(x, y) == IF x.e > y.e THEN x.e ELSE y.e

\* float + float
SumAtScale(x, y, s) ==
    Round(ScaleUp(BigAdd(AtScale(x, s), AtScale(y, s)), -s), ScaleUp(Big(1), s))
DoubleAdd(x, y) ==
    The({SumAtScale(a, b, CommonScale(a, b)) : a \in {x}, b \in {y}})

\* float <= float
DoubleLe(x, y) ==
    \E a \in {x}, b \in {y} :
        BigLe(AtScale(a, CommonScale(a, b)), AtScale(b, CommonScale(a, b)))

\* float * float
DoubleMul(x, y) ==
    The({Round(ScaleUp(BigMul(a.m, b.m), -(a.e + b.e)), ScaleUp(Big(1), a.e + b.e)) :
            a \in {x}, b \in {y}})

\* float / float, y # 0
DoubleDiv(x, y) ==
    The({Round(ScaleUp(a.m, b.e - a.e), ScaleUp(b.m, a.e - b.e)) : a \in {x}, b \in {y}})

\* the integer square root of n < 2^106 by Newton's iteration from
\* x >= sqrt(n), x >= 2^52
NewtonStep(n, x) == Quotient(BigAdd(x, Quotient(n, x)), Big(2))
RECURSIVE ISqrtFrom(_, _)
ISqrtFrom(n, x) ==
    The({IF BigLe(x, next) THEN x ELSE ISqrtFrom(n, next) : next \in {NewtonStep(n, x)}})

\* num * 4^e >= 2^104 * den
ReachesSquare(num, den, e) ==
    BigLe(BigMul(Pow2(104), ScaleUp(den, -2 * e)), ScaleUp(num, 2 * e))

\* num / den lies between 2^(bits - 1) and 2^(bits + 1): the smallest exponent
\* reaching the square of the mantissa is (104 - bits) \div 2 or the one above
SqrtExponentNear(num, den, bits) ==
    IF ReachesSquare(num, den, (104 - bits) \div 2)
    THEN (104 - bits) \div 2 ELSE (104 - bits) \div 2 + 1
SqrtExponentOf(num, den) ==
    The({SqrtExponentNear(num, den, of_num - of_den) :
            of_num \in {BitLength(num)}, of_den \in {BitLength(den)}})

\* m = floor(sqrt(scaled / den)): up when sqrt(scaled / den) > m + 1/2
SqrtRoundUp(scaled, den, m, e) ==
    IF BigLt(BigMul(BigMul(BigAdd(BigTimes(m, 2), Big(1)),
                           BigAdd(BigTimes(m, 2), Big(1))), den),
             BigTimes(scaled, 4))
    THEN Normalised(BigAdd(m, Big(1)), e)
    ELSE [m |-> m, e |-> e]
SqrtOfQuotient(scaled, den, n, e) ==
    The({SqrtRoundUp(scaled, den, m, e) : m \in {ISqrtFrom(n, Pow2(53))}})
SqrtScaled(scaled, den, e) ==
    The({SqrtOfQuotient(scaled, den, n, e) : n \in {BigDiv(scaled, den)}})
SqrtAt(num, den, e) ==
    The({SqrtScaled(scaled, below, e) :
            scaled \in {ScaleUp(num, 2 * e)}, below \in {ScaleUp(den, -2 * e)}})

\* np.sqrt of a float, correctly rounded
SqrtNonZero(m, den) ==
    The({SqrtAt(m, den, e) : e \in {SqrtExponentOf(m, den)}})
DoubleSqrt(x) ==
    The({IF a.m = <<>> THEN DoubleZero
         ELSE SqrtNonZero(ScaleUp(a.m, -a.e), ScaleUp(Big(1), a.e)) : a \in {x}})

\* prob of the iteration a_test, den being combinations(total, col1_total)
ProbDouble(row1_total, row2_total, col1_total, a_test, den) ==
    TrueDivide(ProbNumeratorBig(row1_total, row2_total, a_test, col1_total - a_test), den)

\* the a_test of the loop in the order the loop visits them
RECURSIVE InLoopOrder(_)
InLoopOrder(S) ==
    IF S = {} THEN <<>>
    ELSE LET least == CHOOSE x \in S : \A y \in S : x <= y
         IN  <<least>> \o InLoopOrder(S \ {least})

\* the prob of each iteration, in loop order
ProbsOf(order, row1_total, row2_total, col1_total, den) ==
    [i \in 1..Len(order) |->
        ProbDouble(row1_total, row2_total, col1_total, order[i], den)] \o <<>>

\* the prob the loop adds to p_value, in loop order
RECURSIVE AddedOf(_, _)
AddedOf(probs, threshold) ==
    IF probs = <<>> THEN <<>>
    ELSE (IF DoubleLe(Head(probs), threshold) THEN <<Head(probs)>> ELSE <<>>)
            \o AddedOf(Tail(probs), threshold)

\* p_value after "p_value += prob" for each prob of added, from 0.0
RECURSIVE PValueAfter(_, _)
PValueAfter(added, n) ==
    IF n = 0 THEN DoubleZero
    ELSE The({DoubleAdd(p_before, added[n]) : p_before \in {PValueAfter(added, n - 1)}})

\* min(p_value, 1.0)
MinWithOne(x) == IF DoubleLe(x, DoubleOne) THEN x ELSE DoubleOne

\* the locals of a call: observed_prob and the prob added, in loop order; each
\* local is evaluated once, before the ones computed from it
LocalsWithThreshold(observed_prob, probs, threshold) ==
    [observed_prob |-> observed_prob, added |-> AddedOf(probs, threshold)]
LocalsFromProbs(observed_prob, probs) ==
    The({LocalsWithThreshold(observed_prob, probs, threshold) :
            threshold \in {DoubleAdd(observed_prob, Tolerance)}})
DoubleLocalsOf(order, row1_total, row2_total, col1_total, a, den) ==
    The({LocalsFromProbs(observed_prob, probs) :
            observed_prob \in {ProbDouble(row1_total, row2_total, col1_total, a, den)},
            probs \in {ProbsOf(order, row1_total, row2_total, col1_total, den)}})

NoDoubleLocals == [observed_prob |-> DoubleOne, added |-> <<>>]

FisherLocalsDouble(a, b, c, d) ==
    IF a + b + c + d = 0 THEN NoDoubleLocals
    ELSE The({DoubleLocalsOf(order, a + b, c + d, a + c, a, den) :
                order \in {InLoopOrder(FeasibleA(a, b, c, d))},
                den \in {CombinationsBig(a + b + c + d, a + c)}})

\* the value fisher_exact_test returns, from the locals of the call
ReturnedDouble(total, locals) ==
    IF total = 0 THEN DoubleOne
    ELSE The({MinWithOne(p_after) :
                p_after \in {PValueAfter(locals.added, Len(locals.added))}})

fisher_exact_test_double(a, b, c, d) ==
    The({ReturnedDouble(a + b + c + d, locals) :
            locals \in {FisherLocalsDouble(a, b, c, d)}})

-----------------------------------------------------------------------------
(* meta_merge.py: fixed_effect and random_effect in the arithmetic of        *)
(* numpy's float64.  A value is a sign and a magnitude, the magnitude a      *)
(* double as above; a zero carries no sign, which no comparison can see.     *)

SignedOf(neg, abs) == [neg |-> neg /\ abs.m # <<>>, abs |-> abs]
Positive(abs) == SignedOf(FALSE, abs)
SignedZero == Positive(DoubleZero)
SignedOne == Positive(DoubleOne)

\* the float of the decimal literal num / den and of the integer n >= 0
Literal(num, den) ==
    SignedOf(num < 0, Round(Big(IF num < 0 THEN -num ELSE num), Big(den)))
FloatOfInt(n) == Positive(Round(Big(n), Big(1)))

\* x - y for doubles x >= y
DoubleDiff(x, y) ==
    Round(ScaleUp(BigSub(AtScale(x, CommonScale(x, y)), AtScale(y, CommonScale(x, y))),
                  -CommonScale(x, y)),
          ScaleUp(Big(1), CommonScale(x, y)))

\* a + b on values already evaluated
SumOfSigned(a, b) ==
    IF a.neg = b.neg THEN SignedOf(a.neg, DoubleAdd(a.abs, b.abs))
    ELSE IF DoubleLe(b.abs, a.abs) THEN SignedOf(a.neg, DoubleDiff(a.abs, b.abs))
    ELSE SignedOf(b.neg, DoubleDiff(b.abs, a.abs))

\* float +, -, *, / and comparisons
SignedAdd(x, y) == The({SumOfSigned(a, b) : a \in {x}, b \in {y}})
SignedSub(x, y) ==
    The({SumOfSigned(a, SignedOf(~b.neg, b.abs)) : a \in {x}, b \in {y}})
SignedMul(x, y) ==
    The({SignedOf(a.neg # b.neg, DoubleMul(a.abs, b.abs)) : a \in {x}, b \in {y}})
SignedDiv(x, y) ==
    The({SignedOf(a.neg # b.neg, DoubleDiv(a.abs, b.abs)) : a \in {x}, b \in {y}})
SignedLe(x, y) ==
    \E a \in {x}, b \in {y} :
        IF a.neg # b.neg THEN a.neg
        ELSE IF a.neg THEN DoubleLe(b.abs, a.abs) ELSE DoubleLe(a.abs, b.abs)
SignedLt(x, y) == ~SignedLe(y, x)

\* np.sum of fewer than 8 elements: added one after the other
RECURSIVE SumUpTo(_, _)
SumUpTo(xs, n) ==
    IF n = 1 THEN xs[1]
    ELSE The({SignedAdd(before, xs[n]) : before \in {SumUpTo(xs, n - 1)}})
NumpySumDouble(xs) == IF xs = <<>> THEN SignedZero ELSE SumUpTo(xs, Len(xs))

\* w = 1 / (df['SE'] ** 2)
WeightsDouble(df) ==
    [i \in 1..Len(df) |-> SignedDiv(SignedOne, SignedMul(df[i].SE, df[i].SE))] \o <<>>

\* w_star = 1 / (df['SE'] ** 2 + tau2)
StarWeightsDouble(df, tau2) ==
    [i \in 1..Len(df) |->
        SignedDiv(SignedOne, SignedAdd(SignedMul(df[i].SE, df[i].SE), tau2))] \o <<>>

\* np.sum(w * df['logOR']) / np.sum(w)
WeightedMeanDouble(df, w) ==
    SignedDiv(NumpySumDouble([i \in 1..Len(df) |-> SignedMul(w[i], df[i].logOR)] \o <<>>),
              NumpySumDouble(w))

\* np.sqrt(1 / np.sum(w))
PooledSEDouble(w) ==
    Positive(DoubleSqrt(SignedDiv(SignedOne, NumpySumDouble(w)).abs))

\* pooled_logOR and pooled_SE of fixed_effect(df), k >= 1
PooledDouble(df, w) ==
    [logOR |-> WeightedMeanDouble(df, w), SE |-> PooledSEDouble(w)]
fixed_effect_double(df) == The({PooledDouble(df, w) : w \in {WeightsDouble(df)}})

\* Q = np.sum(w * (df['logOR'] - fixed) ** 2)
SquaredDeviation(logOR, fixed) ==
    The({SignedMul(dev, dev) : dev \in {SignedSub(logOR, fixed)}})
CochranQDouble(df, w, fixed) ==
    NumpySumDouble([i \in 1..Len(df) |->
        SignedMul(w[i], SquaredDeviation(df[i].logOR, fixed))] \o <<>>)

\* max(0, x)
PyMax0Double(x) == IF SignedLt(SignedZero, x) THEN x ELSE SignedZero

\* w.sum() - (w ** 2).sum() / w.sum(), above zero for k >= 2 weights of
\* comparable size
Tau2DivisorDouble(w) ==
    SignedSub(NumpySumDouble(w),
              SignedDiv(NumpySumDouble([i \in 1..Len(w) |-> SignedMul(w[i], w[i])] \o <<>>),
                        NumpySumDouble(w)))

\* tau2 = max(0, (Q - df_deg) / (w.sum() - (w ** 2).sum() / w.sum()))
Tau2Double(Q, df_deg, w) ==
    PyMax0Double(SignedDiv(SignedSub(Q, FloatOfInt(df_deg)), Tau2DivisorDouble(w)))

\* I2 = max(0, (Q - df_deg) / Q) * 100 if Q > 0 else 0
ISquaredDouble(Q, df_deg) ==
    IF SignedLt(SignedZero, Q)
    THEN SignedMul(PyMax0Double(SignedDiv(SignedSub(Q, FloatOfInt(df_deg)), Q)),
                   FloatOfInt(100))
    ELSE SignedZero

\* random_effect's locals, each evaluated once, from the ones before it
RandomFromStarDouble(df, w_star, tau2, Q) ==
    [logOR |-> WeightedMeanDouble(df, w_star), SE |-> PooledSEDouble(w_star),
     I2 |-> ISquaredDouble(Q, Len(df) - 1), tau2 |-> tau2, Q |-> Q]
RandomFromTau2Double(df, tau2, Q) ==
    The({RandomFromStarDouble(df, w_star, tau2, Q) :
            w_star \in {StarWeightsDouble(df, tau2)}})
RandomFromQDouble(df, w, Q) ==
    The({RandomFromTau2Double(df, tau2, Q) : tau2 \in {Tau2Double(Q, Len(df) - 1, w)}})
RandomFromFixedDouble(df, w, fixed) ==
    The({RandomFromQDouble(df, w, Q) : Q \in {CochranQDouble(df, w, fixed)}})
RandomFromWeightsDouble(df, w) ==
    The({RandomFromFixedDouble(df, w, fixed) : fixed \in {WeightedMeanDouble(df, w)}})

\* logOR, SE, I2, tau2 and Q of random_effect(df), k >= 1
random_effect_double(df) ==
    IF Len(df) = 1
    THEN [logOR |-> df[1].logOR, SE |-> df[1].SE, I2 |-> SignedZero,
          tau2 |-> SignedZero, Q |-> SignedZero]
    ELSE The({RandomFromWeightsDouble(df, w) : w \in {WeightsDouble(df)}})

-----------------------------------------------------------------------------
(* batch_stats.py: batch_enrich, batch_group_comparison *)

\* e^(k/2) in thousandths, k = 0..12
ExpHalfTable ==
    <<1000, 1649, 2718, 4482, 7389, 12182, 20086, 33115, 54598, 90017, 148413,
      244692, 403429>>

\* the largest k in 0..12 with e^(k/2) <= x, for a rational x >= 1
HalfLogFloor(x) ==
    CHOOSE k \in 0..12 :
        /\ ExpHalfTable[k + 1] * x.d <= 1000 * x.n
        /\ (k < 12 => ExpHalfTable[k + 2] * x.d > 1000 * x.n)

\* np.log(x): -inf at 0, nan below 0, and for x > 0 the multiple of 1/2 next
\* to the logarithm towards 0
NpLog(x) ==
    IF x.n = 0 THEN NegInf
    ELSE IF x.n < 0 THEN NaN
    ELSE IF RLe(ROne, x) THEN Rat(HalfLogFloor(x), 2)
    ELSE Rat(-HalfLogFloor(RDiv(ROne, x)), 2)

\* count - 0.5: a correction that does not keep a zero count positive
CorrectedBelow(count) == Rat(2 * count - 1, 2)

\* count + 0.5
Corrected(count) == Rat(2 * count + 1, 2)

\* (a_corr / n_corr) / (rest_n_corr / rest_a_corr): the rest of the table
\* taken upside down
OddsRatioRestInverted(a, n, rest_a, rest_n) ==
    RDiv(RDiv(Corrected(a), Corrected(n)), RDiv(Corrected(rest_n), Corrected(rest_a)))

\* (a_corr / n_corr) / (rest_a_corr / rest_n_corr)
OddsRatio(a, n, rest_a, rest_n) ==
    RDiv(RDiv(Corrected(a), Corrected(n)), RDiv(Corrected(rest_a), Corrected(rest_n)))

\* np.sqrt(1/a_corr + 1/n_corr + 1/rest_a_corr + 1/rest_n_corr)
StandardError(a, n, rest_a, rest_n) ==
    Sqrt(RAdd(RAdd(RDiv(ROne, Corrected(a)), RDiv(ROne, Corrected(n))),
              RAdd(RDiv(ROne, Corrected(rest_a)), RDiv(ROne, Corrected(rest_n)))))

\* (a / (a + n)) * 100 if (a + n) > 0 else 0
AnchorPct(a, n) == IF a + n > 0 THEN Rat(100 * a, a + n) ELSE RZero

\* tbl = df.groupby(['mod', 'anchor_tag']).size().unstack(fill_value = 0)
TblCount(df, mod, tag) ==
    Len(SelectSeq(df, LAMBDA r : r.mod = mod /\ r.anchor_tag = tag))
TblHasColumn(df, tag) == \E i \in 1..Len(df) : df[i].anchor_tag = tag
\* the size of the whole table instead of the sum of one column
TblColumnSumAllTags(df, tag) == Len(df)
TblColumnSum(df, tag) == Len(SelectSeq(df, LAMBDA r : r.anchor_tag = tag))
TblIndex(df) == {df[i].mod : i \in 1..Len(df)}

\* one row of batch_enrich's output; the p-value of ss.fisher_exact is the
\* two-sided exact test of the same table
EnrichRow(df, mod) ==
    LET a == IF TblHasColumn(df, "anchor") THEN TblCount(df, mod, "anchor") ELSE 0
        n == IF TblHasColumn(df, "non_anchor") THEN TblCount(df, mod, "non_anchor") ELSE 0
        rest_a == IF TblHasColumn(df, "anchor") THEN TblColumnSum(df, "anchor") - a ELSE 0
        rest_n == IF TblHasColumn(df, "non_anchor")
                  THEN TblColumnSum(df, "non_anchor") - n ELSE 0
    IN  [mod |-> mod, a |-> a, n |-> n, rest_a |-> rest_a, rest_n |-> rest_n,
         logOR |-> NpLog(OddsRatio(a, n, rest_a, rest_n)),
         SE |-> StandardError(a, n, rest_a, rest_n),
         anchor_pct |-> AnchorPct(a, n),
         p_value |-> fisher_exact_test(a, n, rest_a, rest_n),
         total |-> a + n]

\* the loop "for mod in tbl.index": the mods of df in sorted order
RECURSIVE EnrichRows(_, _)
EnrichRows(df, k) ==
    IF k > Len(ModOrder) THEN <<>>
    ELSE (IF ModOrder[k] \in TblIndex(df) THEN <<EnrichRow(df, ModOrder[k])>> ELSE <<>>)
         \o EnrichRows(df, k + 1)

batch_enrich(df) == EnrichRows(df, 1)

\* the first row of the table, whatever its mod
StatsOfFirstRow(stats, mod) ==
    [a |-> stats[1].a, n |-> stats[1].n, anchor_pct |-> stats[1].anchor_pct,
     total |-> stats[1].total]

\* the row of a mod in a batch_enrich table, or the zeros fillna(0) puts in the
\* outer merge where the table has no such row
StatsOrZero(stats, mod) ==
    IF \E i \in 1..Len(stats) : stats[i].mod = mod
    THEN LET r == stats[CHOOSE i \in 1..Len(stats) : stats[i].mod = mod]
         IN  [a |-> r.a, n |-> r.n, anchor_pct |-> r.anchor_pct, total |-> r.total]
    ELSE [a |-> 0, n |-> 0, anchor_pct |-> RZero, total |-> 0]

GroupComparisonRow(tumor_stats, normal_stats, mod) ==
    LET t == StatsOrZero(tumor_stats, mod)
        nm == StatsOrZero(normal_stats, mod)
        p_group == IF t.a + t.n + nm.a + nm.n > 0
                   THEN fisher_exact_test(t.a, t.n, nm.a, nm.n) ELSE ROne
    IN  [mod |-> mod, tumor_anchor_pct |-> t.anchor_pct,
         normal_anchor_pct |-> nm.anchor_pct,
         group_logOR |-> NpLog(OddsRatio(t.a, t.n, nm.a, nm.n)),
         group_SE |-> StandardError(t.a, t.n, nm.a, nm.n),
         p_group |-> p_group, total_tumor |-> t.total, total_normal |-> nm.total]

RECURSIVE GroupComparisonRows(_, _, _)
GroupComparisonRows(tumor_stats, normal_stats, k) ==
    IF k > Len(ModOrder) THEN <<>>
    ELSE (IF \E i \in 1..Len(tumor_stats) : tumor_stats[i].mod = ModOrder[k]
          THEN <<GroupComparisonRow(tumor_stats, normal_stats, ModOrder[k])>>
          ELSE IF \E i \in 1..Len(normal_stats) : normal_stats[i].mod = ModOrder[k]
          THEN <<GroupComparisonRow(tumor_stats, normal_stats, ModOrder[k])>>
          ELSE <<>>)
         \o GroupComparisonRows(tumor_stats, normal_stats, k + 1)

batch_group_comparison(tumor_df, normal_df) ==
    GroupComparisonRows(batch_enrich(tumor_df), batch_enrich(normal_df), 1)

\* what one iteration of batch_enrich's loop computed before appending its row
EnrichLocal(row) ==
    [mod |-> row.mod,
     a_corr |-> Corrected(row.a), n_corr |-> Corrected(row.n),
     rest_a_corr |-> Corrected(row.rest_a), rest_n_corr |-> Corrected(row.rest_n),
     or_ |-> OddsRatio(row.a, row.n, row.rest_a, row.rest_n),
     se |-> StandardError(row.a, row.n, row.rest_a, row.rest_n)]

EnrichLocals(rows) == [i \in 1..Len(rows) |-> EnrichLocal(rows[i])] \o <<>>

\* what one iteration of batch_group_comparison's loop computed
GroupComparisonLocalOf(mod, t, nm) ==
    [mod |-> mod,
     table |-> <<<<t.a, t.n>>, <<nm.a, nm.n>>>>,
     a_t |-> Corrected(t.a), n_t |-> Corrected(t.n),
     a_n |-> Corrected(nm.a), n_n |-> Corrected(nm.n),
     group_or |-> OddsRatio(t.a, t.n, nm.a, nm.n),
     group_se |-> StandardError(t.a, t.n, nm.a, nm.n)]

GroupComparisonLocals(tumor_stats, normal_stats, rows) ==
    [i \in 1..Len(rows) |->
        GroupComparisonLocalOf(rows[i].mod, StatsOrZero(tumor_stats, rows[i].mod),
                               StatsOrZero(normal_stats, rows[i].mod))] \o <<>>

-----------------------------------------------------------------------------
(* stats_plot.py: enrichment_analysis *)

\* counts[anchor_tag] += 1 on one entry of the dictionary
BumpTag(entry, tag) ==
    IF tag = "anchor" THEN [entry EXCEPT !.anchor = @ + 1]
    ELSE [entry EXCEPT !.non_anchor = @ + 1]

\* the entry a defaultdict holds for a key first read
DefaultCounts(mod) == [mod |-> mod, anchor |-> 0, non_anchor |-> 0]

\* an update that, for a key already present, counts the tag of the key's
\* first record instead of the record's own
IncrementStaleTag(counts, mod, tag) ==
    IF \E i \in 1..Len(counts) : counts[i].mod = mod
    THEN [i \in 1..Len(counts) |->
             IF counts[i].mod = mod
             THEN BumpTag(counts[i], IF counts[i].anchor > 0 THEN "anchor"
                                     ELSE "non_anchor")
             ELSE counts[i]] \o <<>>
    ELSE Append(counts, BumpTag(DefaultCounts(mod), tag))

\* mod_counts[mod][anchor_tag] += 1: the dictionary as the sequence of its
\* entries in insertion order
Increment(counts, mod, tag) ==
    IF \E i \in 1..Len(counts) : counts[i].mod = mod
    THEN [i \in 1..Len(counts) |->
             IF counts[i].mod = mod THEN BumpTag(counts[i], tag) ELSE counts[i]] \o <<>>
    ELSE Append(counts, BumpTag(DefaultCounts(mod), tag))

\* the counting loop "for record in coupling_records"
RECURSIVE CountRecords(_, _)
CountRecords(counts, records) ==
    IF records = <<>> THEN counts
    ELSE CountRecords(Increment(counts, Head(records).mod, Head(records).anchor_tag),
                      Tail(records))

mod_counts(coupling_records) == CountRecords(<<>>, coupling_records)

\* counts[mod], the default where the dictionary has no such key
CountsOfMod(counts, mod) ==
    IF \E i \in 1..Len(counts) : counts[i].mod = mod
    THEN counts[CHOOSE i \in 1..Len(counts) : counts[i].mod = mod]
    ELSE DefaultCounts(mod)

\* sum(c[tag] for m, c in mod_counts.items()): the mod's own count included
RECURSIVE SumOfAllMods(_, _, _)
SumOfAllMods(counts, mod, tag) ==
    IF counts = <<>> THEN 0
    ELSE (IF tag = "anchor" THEN Head(counts).anchor ELSE Head(counts).non_anchor)
         + SumOfAllMods(Tail(counts), mod, tag)

\* sum(c[tag] for m, c in mod_counts.items() if m != mod)
RECURSIVE SumOthers(_, _, _)
SumOthers(counts, mod, tag) ==
    IF counts = <<>> THEN 0
    ELSE (IF Head(counts).mod = mod THEN 0
          ELSE IF tag = "anchor" THEN Head(counts).anchor ELSE Head(counts).non_anchor)
         + SumOthers(Tail(counts), mod, tag)

\* anchor, non_anchor, other_anchor, other_non_anchor of one iteration
AnalysisLocal(counts, entry) ==
    [mod |-> entry.mod, anchor |-> entry.anchor, non_anchor |-> entry.non_anchor,
     other_anchor |-> SumOthers(counts, entry.mod, "anchor"),
     other_non_anchor |-> SumOthers(counts, entry.mod, "non_anchor")]

AnalysisLocals(counts) ==
    [i \in 1..Len(counts) |-> AnalysisLocal(counts, counts[i])] \o <<>>

enrichment_fold(anchor, non_anchor, other_anchor, other_non_anchor) ==
    IF non_anchor > 0 /\ other_non_anchor > 0 /\ other_anchor > 0
    THEN RDiv(Rat(anchor, non_anchor), Rat(other_anchor, other_non_anchor))
    ELSE IF anchor > 0 /\ non_anchor = 0 THEN PosInf
    ELSE IF anchor = 0 THEN RZero
    ELSE ROne

\* the dict appended for one mod
AnalysisResult(l) ==
    [mod |-> l.mod, anchor |-> l.anchor, non_anchor |-> l.non_anchor,
     total |-> l.anchor + l.non_anchor,
     anchor_percentage |-> IF l.anchor + l.non_anchor > 0
                           THEN Rat(100 * l.anchor, l.anchor + l.non_anchor) ELSE RZero,
     enrichment_fold |->
         enrichment_fold(l.anchor, l.non_anchor, l.other_anchor, l.other_non_anchor),
     p_value |-> fisher_exact_test(l.anchor, l.non_anchor, l.other_anchor,
                                   l.other_non_anchor)]

AnalysisResults(locals) == [i \in 1..Len(locals) |-> AnalysisResult(locals[i])] \o <<>>

\* enrichment_analysis: the results in the order of mod_counts.items(), then
\* sorted(results, key = lambda x: x['p_value'])
enrichment_analysis(coupling_records) ==
    SortByP(AnalysisResults(AnalysisLocals(mod_counts(coupling_records))))

-----------------------------------------------------------------------------
(* compare_groups.py: compare_groups *)

\* set(counts.keys())
KeysOf(counts) == {counts[i].mod : i \in 1..Len(counts)}

\* set(tumor_counts.keys()) | set(normal_counts.keys())
all_mods(tumor_recs, normal_recs) ==
    KeysOf(mod_counts(tumor_recs)) \cup KeysOf(mod_counts(normal_recs))

\* (count / total) * 100 if total > 0 else 0
AnchorRate(count, total) == IF total > 0 THEN Rat(100 * count, total) ELSE RZero

enrichment_ratio(t_anchor, t_non, n_anchor, n_non) ==
    IF n_anchor > 0 /\ n_non > 0 /\ t_non > 0
    THEN RDiv(Rat(t_anchor, t_non), Rat(n_anchor, n_non))
    ELSE IF t_anchor > 0 /\ n_anchor = 0 THEN PosInf
    ELSE IF t_anchor = 0 THEN RZero
    ELSE ROne

\* the dict appended for one mod
ComparisonResult(mod, t_anchor, t_non, n_anchor, n_non) ==
    [mod |-> mod,
     t_anchor |-> t_anchor, t_non |-> t_non, t_total |-> t_anchor + t_non,
     t_anchor_rate |-> AnchorRate(t_anchor, t_anchor + t_non),
     n_anchor |-> n_anchor, n_non |-> n_non, n_total |-> n_anchor + n_non,
     n_anchor_rate |-> AnchorRate(n_anchor, n_anchor + n_non),
     enrichment_ratio |-> enrichment_ratio(t_anchor, t_non, n_anchor, n_non),
     p_group |-> fisher_exact_test(t_anchor, t_non, n_anchor, n_non)]

\* tumor_counts[mod] and normal_counts[mod]: a missing key reads as the
\* default {"anchor": 0, "non_anchor": 0}
ComparisonFromCounts(mod, t, n) ==
    ComparisonResult(mod, t.anchor, t.non_anchor, n.anchor, n.non_anchor)

ComparisonOf(tumor_recs, normal_recs, mod) ==
    ComparisonFromCounts(mod, CountsOfMod(mod_counts(tumor_recs), mod),
                         CountsOfMod(mod_counts(normal_recs), mod))

\* sorted(results, key = lambda x: x['p_group']): stable, ascending
RECURSIVE InsertByPGroup(_, _)
InsertByPGroup(sorted, r) ==
    IF sorted = <<>> THEN <<r>>
    ELSE IF RLt(r.p_group, Head(sorted).p_group) THEN <<r>> \o sorted
    ELSE <<Head(sorted)>> \o InsertByPGroup(Tail(sorted), r)
RECURSIVE SortByPGroup(_)
SortByPGroup(results) ==
    IF results = <<>> THEN <<>>
    ELSE InsertByPGroup(SortByPGroup(SubSeq(results, 1, Len(results) - 1)),
                        results[Len(results)])

\* the orders in which "for mod in all_mods" can visit a set
IterationOrders(S) ==
    {order \in [1..Cardinality(S) -> S] :
        \A i, j \in 1..Cardinality(S) : i # j => order[i] # order[j]}

\* compare_groups, the set all_mods being iterated in the given order
compare_groups(tumor_recs, normal_recs, order) ==
    SortByPGroup([i \in 1..Len(order) |->
                     ComparisonOf(tumor_recs, normal_recs, order[i])] \o <<>>)

\* Odds Ratio of the table t_anchor, t_non, n_anchor, n_non
calculate_effect_size(t_anchor, t_non, n_anchor, n_non) ==
    IF t_non = 0 \/ n_anchor = 0
    THEN (IF t_anchor > 0 /\ n_non > 0 THEN PosInf ELSE RZero)
    ELSE IF t_anchor = 0 \/ n_non = 0 THEN RZero
    ELSE Rat(t_anchor * n_non, t_non * n_anchor)

\* p_values = [r['p_group'] for r in results]
PGroupsOf(results) == [i \in 1..Len(results) |-> results[i].p_group] \o <<>>

\* the three keys the export adds to one result
WithExportKeys(result, p_bonferroni, p_fdr) ==
    [odds_ratio |-> calculate_effect_size(result.t_anchor, result.t_non,
                                          result.n_anchor, result.n_non),
     p_bonferroni |-> p_bonferroni, p_fdr |-> p_fdr] @@ result

ExportedFrom(results, p_bonferroni, p_fdr) ==
    [i \in 1..Len(results) |-> WithExportKeys(results[i], p_bonferroni[i], p_fdr[i])]
        \o <<>>

\* the results as export_group_comparison_results updates them in place
export_group_comparison_results(results) ==
    ExportedFrom(results,
                 multiple_testing_correction(PGroupsOf(results), "bonferroni"),
                 multiple_testing_correction(PGroupsOf(results), "fdr"))

-----------------------------------------------------------------------------
(* compare_groups.py: compare_groups and export_group_comparison_results in  *)
(* the arithmetic of Python's float, on the records of one mod               *)

\* float('inf'): a magnitude above every double
InfDouble == [neg |-> FALSE, abs |-> [m |-> <<1>>, e |-> -1024]]

\* int / int
RatioOfInts(num, den) == Positive(TrueDivide(Big(num), Big(den)))

\* (count / total) * 100 if total > 0 else 0
AnchorRateDouble(count, total) ==
    IF total > 0 THEN SignedMul(RatioOfInts(count, total), FloatOfInt(100))
    ELSE SignedZero

enrichment_ratio_double(t_anchor, t_non, n_anchor, n_non) ==
    IF n_anchor > 0 /\ n_non > 0 /\ t_non > 0
    THEN SignedDiv(RatioOfInts(t_anchor, t_non), RatioOfInts(n_anchor, n_non))
    ELSE IF t_anchor > 0 /\ n_anchor = 0 THEN InfDouble
    ELSE IF t_anchor = 0 THEN SignedZero
    ELSE SignedOne

\* the dict appended for one mod
ComparisonResultDouble(mod, t_anchor, t_non, n_anchor, n_non) ==
    [mod |-> mod,
     t_anchor |-> t_anchor, t_non |-> t_non, t_total |-> t_anchor + t_non,
     t_anchor_rate |-> AnchorRateDouble(t_anchor, t_anchor + t_non),
     n_anchor |-> n_anchor, n_non |-> n_non, n_total |-> n_anchor + n_non,
     n_anchor_rate |-> AnchorRateDouble(n_anchor, n_anchor + n_non),
     enrichment_ratio |-> enrichment_ratio_double(t_anchor, t_non, n_anchor, n_non),
     p_group |-> Positive(fisher_exact_test_double(t_anchor, t_non, n_anchor, n_non))]

ComparisonFromCountsDouble(mod, t, n) ==
    ComparisonResultDouble(mod, t.anchor, t.non_anchor, n.anchor, n.non_anchor)

\* compare_groups on records that all carry one mod: all_mods holds that mod,
\* or nothing when there is no record
compare_groups_double(tumor_recs, normal_recs) ==
    IF all_mods(tumor_recs, normal_recs) = {} THEN <<>>
    ELSE <<ComparisonFromCountsDouble(The(all_mods(tumor_recs, normal_recs)),
               CountsOfMod(mod_counts(tumor_recs), The(all_mods(tumor_recs, normal_recs))),
               CountsOfMod(mod_counts(normal_recs), The(all_mods(tumor_recs, normal_recs))))>>

\* Odds Ratio of the table t_anchor, t_non, n_anchor, n_non
calculate_effect_size_double(t_anchor, t_non, n_anchor, n_non) ==
    IF t_non = 0 \/ n_anchor = 0
    THEN (IF t_anchor > 0 /\ n_non > 0 THEN InfDouble ELSE SignedZero)
    ELSE IF t_anchor = 0 \/ n_non = 0 THEN SignedZero
    ELSE RatioOfInts(t_anchor * n_non, t_non * n_anchor)

\* min(p * n, 1.0) and min(p_val * n / (rank + 1), 1.0) of the one p-value of
\* a list of length n = 1
BonferroniOfOne(p) == Positive(MinWithOne(SignedMul(p, FloatOfInt(1)).abs))
FdrOfOne(p) ==
    Positive(MinWithOne(SignedDiv(SignedMul(p, FloatOfInt(1)), FloatOfInt(1)).abs))

\* the results of one mod as export_group_comparison_results updates them
export_group_comparison_results_double(results) ==
    [i \in 1..Len(results) |->
        [odds_ratio |-> calculate_effect_size_double(results[i].t_anchor, results[i].t_non,
                                                     results[i].n_anchor, results[i].n_non),
         p_bonferroni |-> BonferroniOfOne(results[i].p_group),
         p_fdr |-> FdrOfOne(results[i].p_group)] @@ results[i]] \o <<>>

-----------------------------------------------------------------------------
(* The calls under study.  Each specification draws the arguments of one    *)
(* component in its initial state and applies the component's operations.   *)

IdleMTC == p_values = <<>> /\ method = "unset" /\ corrected = <<>>
IdleFisher ==
    /\ cell = [a |-> 0, b |-> 0, c |-> 0, d |-> 0]
    /\ p_value = NaN
    /\ fisher_locals = NoLocals
IdleMeta ==
    /\ batch_data = <<>>
    /\ meta_method = "unset"
    /\ meta_results = <<>>
    /\ fixed_result = <<>>
    /\ random_result = <<>>
    /\ random_locals = NoRandomLocals
    /\ summary = <<>>

IdlePipe ==
    /\ batch_tables = <<>>
    /\ batch_idx = 0
    /\ per_batch_results = <<>>
    /\ per_batch_group_comparisons = <<>>
    /\ tumor_meta_results = <<>>
    /\ normal_meta_results = <<>>
    /\ group_meta_results = <<>>
    /\ heterogeneity_summary = <<>>
    /\ failed_batch = 0

IdleRecords ==
    /\ tumor_records = <<>>
    /\ normal_records = <<>>
    /\ enrich_rows = <<>>
    /\ group_comparison_rows = <<>>
    /\ compare_results = <<>>
    /\ enrich_locals = <<>>
    /\ group_comparison_locals = <<>>
    /\ analysis_results = <<>>
    /\ analysis_locals = <<>>
    /\ exported_results = <<>>

(* multiple_testing_correction *)

PGrid == {Rat(k, PDen) : k \in 0..PDen}
PLists == UNION {[1..n -> PGrid] : n \in 0..MaxN}

InitMTC ==
    /\ pc = "mtc_call"
    /\ p_values \in PLists
    /\ method = "unset"
    /\ corrected = <<>>
    /\ IdleFisher
    /\ IdleMeta
    /\ IdlePipe
    /\ IdleRecords

MultipleTestingCorrection ==
    /\ pc = "mtc_call"
    /\ \E m \in Methods :
          /\ method' = m
          /\ corrected' = multiple_testing_correction(p_values, m)
    /\ pc' = "mtc_done"
    /\ UNCHANGED <<p_values, fisherVars, metaVars, pipeVars, recordVars>>

NextMTC == MultipleTestingCorrection

SpecMTC == InitMTC /\ [][NextMTC]_vars

(* fisher_exact_test *)

Cells ==
    {t \in [a : 0..MaxTotal, b : 0..MaxTotal, c : 0..MaxTotal, d : 0..MaxTotal] :
        t.a + t.b + t.c + t.d <= MaxTotal}

InitFisher ==
    /\ pc = "fisher_call"
    /\ cell \in Cells
    /\ p_value = NaN
    /\ fisher_locals = NoLocals
    /\ IdleMTC
    /\ IdleMeta
    /\ IdlePipe
    /\ IdleRecords

FisherExactTest ==
    /\ pc = "fisher_call"
    /\ p_value' = fisher_exact_test(cell.a, cell.b, cell.c, cell.d)
    /\ fisher_locals' = FisherLocals(cell.a, cell.b, cell.c, cell.d)
    /\ pc' = "fisher_done"
    /\ UNCHANGED <<cell, mtcVars, metaVars, pipeVars, recordVars>>

NextFisher == FisherExactTest

SpecFisher == InitFisher /\ [][NextFisher]_vars

(* fisher_exact_test on larger tables: nearly separated ones, whose diagonal *)
(* counts are 0 or 1                                                         *)

LargeCells ==
    [a : 0..1, b : (LargeSide - 3)..LargeSide, c : (LargeSide - 3)..LargeSide, d : 0..1]

InitFisherLarge ==
    /\ pc = "fisher_call"
    /\ cell \in LargeCells
    /\ p_value = NaN
    /\ fisher_locals = NoLocals
    /\ IdleMTC
    /\ IdleMeta
    /\ IdlePipe
    /\ IdleRecords

FisherExactTestLarge ==
    /\ pc = "fisher_call"
    /\ fisher_locals' = FisherLocalsBig(cell.a, cell.b, cell.c, cell.d)
    /\ p_value' = ReturnedFromLocals(fisher_locals')
    /\ pc' = "fisher_done"
    /\ UNCHANGED <<cell, mtcVars, metaVars, pipeVars, recordVars>>

NextFisherLarge == FisherExactTestLarge

SpecFisherLarge == InitFisherLarge /\ [][NextFisherLarge]_vars

(* fisher_exact_test in float arithmetic, on the tables of small counts *)

SmallCells == [a : 0..FloatSide, b : 0..FloatSide, c : 0..FloatSide, d : 0..FloatSide]

InitFisherDouble ==
    /\ pc = "fisher_call"
    /\ cell \in SmallCells
    /\ p_value = NaN
    /\ fisher_locals = NoLocals
    /\ IdleMTC
    /\ IdleMeta
    /\ IdlePipe
    /\ IdleRecords

FisherExactTestDouble ==
    /\ pc = "fisher_call"
    /\ fisher_locals' = FisherLocalsDouble(cell.a, cell.b, cell.c, cell.d)
    /\ p_value' = ReturnedDouble(cell.a + cell.b + cell.c + cell.d, fisher_locals')
    /\ pc' = "fisher_done"
    /\ UNCHANGED <<cell, mtcVars, metaVars, pipeVars, recordVars>>

NextFisherDouble == FisherExactTestDouble

SpecFisherDouble == InitFisherDouble /\ [][NextFisherDouble]_vars

(* fixed_effect and random_effect in float arithmetic, on studies of one mod *)
(* whose logOR and SE are the floats of short decimal literals               *)

\* logOR 0.1, 1.5 and -0.8; SE 0.4 and 1.75
LogORLiterals == {Literal(1, 10), Literal(3, 2), Literal(-4, 5)}
SELiterals == {Literal(2, 5), Literal(7, 4)}
DoubleTables ==
    UNION {[1..n -> [mod : {ModOrder[1]}, logOR : LogORLiterals, SE : SELiterals]] :
             n \in 1..MaxStudies}

InitMetaDouble ==
    /\ pc = "meta_call"
    /\ batch_data \in DoubleTables
    /\ meta_method = "unset"
    /\ meta_results = <<>>
    /\ fixed_result = <<>>
    /\ random_result = <<>>
    /\ random_locals = NoRandomLocals
    /\ summary = <<>>
    /\ IdleMTC
    /\ IdleFisher
    /\ IdlePipe
    /\ IdleRecords

FixedEffectDouble ==
    /\ pc = "meta_call"
    /\ fixed_result' = <<fixed_effect_double(batch_data)>>
    /\ pc' = "fixed_done"
    /\ UNCHANGED <<batch_data, meta_method, meta_results, random_result, random_locals,
                   summary, mtcVars, fisherVars, pipeVars, recordVars>>

RandomEffectDouble ==
    /\ pc = "meta_call"
    /\ random_result' = <<random_effect_double(batch_data)>>
    /\ pc' = "random_done"
    /\ UNCHANGED <<batch_data, meta_method, meta_results, fixed_result, random_locals,
                   summary, mtcVars, fisherVars, pipeVars, recordVars>>

NextMetaDouble == FixedEffectDouble \/ RandomEffectDouble

SpecMetaDouble == InitMetaDouble /\ [][NextMetaDouble]_vars

(* the meta-analysis engine *)

\* effect sizes and standard errors of the rows handed to the engine; a row
\* with a missing value has logOR = nan
LogORGrid == {RInt(-1), RZero, RInt(1)}
SEGrid == {Sqrt(RZero), Sqrt(Rat(1, 4)), Sqrt(ROne)}
EffectRows ==
    [mod : {ModOrder[k] : k \in 1..Len(ModOrder)}, logOR : LogORGrid, SE : SEGrid]
    \cup [mod : {ModOrder[k] : k \in 1..Len(ModOrder)}, logOR : {NaN}, SE : {Sqrt(ROne)}]
\* tables of one mod with up to MaxRows complete rows, and tables of several
\* mods, rows with a missing value among them, one row shorter
BatchTables ==
    UNION {[1..n -> {r \in EffectRows : r.mod = ModOrder[1] /\ ~IsNaN(r.logOR)}] :
             n \in 0..MaxRows}
    \cup UNION {[1..n -> {r \in EffectRows : r.SE.sq # RZero}] : n \in 0..(MaxRows - 1)}

NoMissing(bd) == \A i \in 1..Len(bd) : ~IsNaN(bd[i].logOR) /\ ~IsNaN(bd[i].SE.sq)

InitMeta ==
    /\ pc = "meta_call"
    /\ batch_data \in BatchTables
    /\ meta_method = "unset"
    /\ meta_results = <<>>
    /\ fixed_result = <<>>
    /\ random_result = <<>>
    /\ random_locals = NoRandomLocals
    /\ summary = <<>>
    /\ IdleMTC
    /\ IdleFisher
    /\ IdlePipe
    /\ IdleRecords

\* fixed_effect on a table as its caller hands it over: rows with a missing
\* value dropped, at least one row
FixedEffect ==
    /\ pc = "meta_call"
    /\ NoMissing(batch_data)
    /\ Len(batch_data) >= 1
    /\ fixed_result' = <<fixed_effect(batch_data)>>
    /\ pc' = "fixed_done"
    /\ UNCHANGED <<batch_data, meta_method, meta_results, random_result, random_locals,
                   summary, mtcVars, fisherVars, pipeVars, recordVars>>

RandomEffect ==
    /\ pc = "meta_call"
    /\ NoMissing(batch_data)
    /\ random_result' = <<random_effect(batch_data)>>
    /\ random_locals' = RandomLocals(batch_data)
    /\ pc' = "random_done"
    /\ UNCHANGED <<batch_data, meta_method, meta_results, fixed_result,
                   summary, mtcVars, fisherVars, pipeVars, recordVars>>

MetaAnalysisByMod ==
    /\ pc = "meta_call"
    /\ \E m \in {"fixed", "random"} :
          /\ meta_method' = m
          /\ LET ret == meta_analysis_by_mod(batch_data, m)
             IN  /\ meta_results' = ret.results_df
                 /\ pc' = IF ret.raised THEN "meta_raised" ELSE "meta_done"
    /\ UNCHANGED <<batch_data, fixed_result, random_result, random_locals, summary,
                   mtcVars, fisherVars, pipeVars, recordVars>>

SummarizeBatchHeterogeneity ==
    /\ pc = "meta_call"
    /\ summary' = summarize_batch_heterogeneity(batch_data)
    /\ pc' = "summary_done"
    /\ UNCHANGED <<batch_data, meta_method, meta_results, fixed_result, random_result,
                   random_locals,
                   mtcVars, fisherVars, pipeVars, recordVars>>

NextMeta ==
    \/ FixedEffect
    \/ RandomEffect
    \/ MetaAnalysisByMod
    \/ SummarizeBatchHeterogeneity

SpecMeta == InitMeta /\ [][NextMeta]_vars

(* run_pipeline_batch, mode = 'batch': Steps 3 to 5 *)

\* the coupling records one group of one batch can have
GroupFrames ==
    {<<>>,
     <<[mod |-> "m1", anchor_tag |-> "anchor"], [mod |-> "m1", anchor_tag |-> "non_anchor"],
       [mod |-> "m2", anchor_tag |-> "non_anchor"]>>,
     <<[mod |-> "m1", anchor_tag |-> "anchor"], [mod |-> "m1", anchor_tag |-> "anchor"]>>}

WithGroup(frame, g) ==
    [i \in 1..Len(frame) |->
        [mod |-> frame[i].mod, anchor_tag |-> frame[i].anchor_tag, group |-> g]]

\* df_batch of one batch: batch_tables gets an entry only with coupling_records,
\* so no batch is empty
BatchFrames ==
    {WithGroup(t, "Tumor") \o WithGroup(n, "Normal") : t \in GroupFrames, n \in GroupFrames}
        \ {<<>>}

\* tumor_enrich['batch_id'] = bid; tumor_enrich['group'] = 'Tumor'
Labelled(stats, bid, g) ==
    [i \in 1..Len(stats) |->
        [mod |-> stats[i].mod, a |-> stats[i].a, n |-> stats[i].n,
         rest_a |-> stats[i].rest_a, rest_n |-> stats[i].rest_n,
         logOR |-> stats[i].logOR, SE |-> stats[i].SE,
         anchor_pct |-> stats[i].anchor_pct, p_value |-> stats[i].p_value,
         total |-> stats[i].total, batch_id |-> bid, group |-> g]]

\* group_comp['batch_id'] = bid, and later the logOR and SE columns copied from
\* group_logOR and group_SE
LabelledComparison(comp, bid) ==
    [i \in 1..Len(comp) |->
        [mod |-> comp[i].mod, group_logOR |-> comp[i].group_logOR,
         group_SE |-> comp[i].group_SE, p_group |-> comp[i].p_group,
         logOR |-> comp[i].group_logOR, SE |-> comp[i].group_SE, batch_id |-> bid]]

\* pd.concat(tables, ignore_index = True)
RECURSIVE Concat(_)
Concat(tables) == IF tables = <<>> THEN <<>> ELSE Head(tables) \o Concat(Tail(tables))

OfGroup(df, g) == SelectSeq(df, LAMBDA r : r.group = g)
NUnique(df) == Cardinality({df[i].batch_id : i \in 1..Len(df)})

InitPipeline ==
    /\ pc = "batch_loop"
    /\ \E nb \in 1..NBatches : batch_tables \in [1..nb -> BatchFrames]
    /\ batch_idx = 0
    /\ per_batch_results = <<>>
    /\ per_batch_group_comparisons = <<>>
    /\ tumor_meta_results = <<>>
    /\ normal_meta_results = <<>>
    /\ group_meta_results = <<>>
    /\ heterogeneity_summary = <<>>
    /\ failed_batch = 0
    /\ IdleMTC
    /\ IdleFisher
    /\ IdleMeta
    /\ IdleRecords

\* One iteration of the Step 3 loop.  to_csv writes a file named after the
\* batch id and raises OSError when it cannot; nothing in the loop catches it
ProcessBatch ==
    /\ pc = "batch_loop"
    /\ batch_idx < Len(batch_tables)
    /\ LET bid == batch_idx + 1
           df_batch == batch_tables[bid]
           df_tumor == OfGroup(df_batch, "Tumor")
           df_normal == OfGroup(df_batch, "Normal")
           with_tumor == IF Len(df_tumor) > 0
                         THEN Append(per_batch_results,
                                     Labelled(batch_enrich(df_tumor), bid, "Tumor"))
                         ELSE per_batch_results
           with_normal == IF Len(df_normal) > 0
                          THEN Append(with_tumor,
                                      Labelled(batch_enrich(df_normal), bid, "Normal"))
                          ELSE with_tumor
       IN  \/ /\ Len(df_tumor) > 0        \* the tumor to_csv raises
              /\ per_batch_results' = with_tumor
              /\ pc' = "raised"
              /\ failed_batch' = bid
              /\ UNCHANGED <<batch_idx, per_batch_group_comparisons>>
           \/ /\ Len(df_normal) > 0       \* the normal to_csv raises
              /\ per_batch_results' = with_normal
              /\ pc' = "raised"
              /\ failed_batch' = bid
              /\ UNCHANGED <<batch_idx, per_batch_group_comparisons>>
           \/ /\ per_batch_results' = with_normal
              /\ per_batch_group_comparisons' =
                    IF Len(df_tumor) > 0 /\ Len(df_normal) > 0
                    THEN Append(per_batch_group_comparisons,
                                LabelledComparison(
                                    batch_group_comparison(df_tumor, df_normal), bid))
                    ELSE per_batch_group_comparisons
              /\ batch_idx' = bid
              /\ pc' = IF bid = Len(batch_tables) THEN "meta" ELSE "batch_loop"
              /\ UNCHANGED failed_batch
    /\ UNCHANGED <<batch_tables, tumor_meta_results, normal_meta_results,
                   group_meta_results, heterogeneity_summary,
                   mtcVars, fisherVars, metaVars, recordVars>>

\* Step 4.  Every batch has records, so per_batch_results is not empty here.
\* create_summary_forest_plot writes a figure outside any try block
MetaAnalysis ==
    /\ pc = "meta"
    /\ LET all_batch_df == Concat(per_batch_results)
           tumor_batch_data == OfGroup(all_batch_df, "Tumor")
           normal_batch_data == OfGroup(all_batch_df, "Normal")
           group_comp_df == Concat(per_batch_group_comparisons)
           tumor_meta == IF Len(tumor_batch_data) > 0
                         THEN meta_analysis_by_mod(tumor_batch_data, "random").results_df
                         ELSE <<>>
       IN  \/ /\ Len(tumor_batch_data) > 0    \* the summary figure raises
              /\ tumor_meta_results' = tumor_meta
              /\ pc' = "raised"
              /\ UNCHANGED <<normal_meta_results, group_meta_results>>
           \/ /\ tumor_meta_results' = tumor_meta
              /\ normal_meta_results' =
                    IF Len(normal_batch_data) > 0 /\ NUnique(normal_batch_data) >= 2
                    THEN meta_analysis_by_mod(normal_batch_data, "random").results_df
                    ELSE <<>>
              /\ group_meta_results' =
                    IF per_batch_group_comparisons # <<>>
                    THEN meta_analysis_by_mod(group_comp_df, "random").results_df
                    ELSE <<>>
              /\ pc' = "heterogeneity"
    /\ UNCHANGED <<batch_tables, batch_idx, per_batch_results,
                   per_batch_group_comparisons, heterogeneity_summary, failed_batch,
                   mtcVars, fisherVars, metaVars, recordVars>>

\* Step 5: the summary of all_batch_df, the tumor and the normal rows together
AssessHeterogeneity ==
    /\ pc = "heterogeneity"
    /\ heterogeneity_summary' = summarize_batch_heterogeneity(Concat(per_batch_results))
    /\ pc' = "done"
    /\ UNCHANGED <<batch_tables, batch_idx, per_batch_results,
                   per_batch_group_comparisons, tumor_meta_results,
                   normal_meta_results, group_meta_results, failed_batch,
                   mtcVars, fisherVars, metaVars, recordVars>>

NextPipeline == ProcessBatch \/ MetaAnalysis \/ AssessHeterogeneity
SpecPipeline == InitPipeline /\ [][NextPipeline]_vars

(* batch_enrich, batch_group_comparison and compare_groups on the coupling   *)
(* records of a tumor and a normal group                                     *)

AnchorTags == {"anchor", "non_anchor"}
RecordKinds == [mod : {ModOrder[i] : i \in 1..Len(ModOrder)}, anchor_tag : AnchorTags]
RecordLists == UNION {[1..len -> RecordKinds] : len \in 0..MaxRecords}

InitRecords ==
    /\ pc = "records"
    /\ tumor_records \in RecordLists
    /\ normal_records \in RecordLists
    /\ enrich_rows = <<>>
    /\ group_comparison_rows = <<>>
    /\ compare_results = <<>>
    /\ enrich_locals = <<>>
    /\ group_comparison_locals = <<>>
    /\ analysis_results = <<>>
    /\ analysis_locals = <<>>
    /\ exported_results = <<>>
    /\ IdleMTC
    /\ IdleFisher
    /\ IdleMeta
    /\ IdlePipe

\* tumor_enrich = batch_enrich(df_tumor), called for a non-empty frame
BatchEnrich ==
    /\ pc = "records"
    /\ Len(tumor_records) > 0
    /\ enrich_rows' = batch_enrich(tumor_records)
    /\ enrich_locals' = EnrichLocals(enrich_rows')
    /\ pc' = "enrich_done"
    /\ UNCHANGED <<tumor_records, normal_records, group_comparison_rows,
                   compare_results, group_comparison_locals,
                   analysis_results, analysis_locals, exported_results,
                   mtcVars, fisherVars, metaVars, pipeVars>>

\* group_comp = batch_group_comparison(df_tumor, df_normal), called when both
\* frames are non-empty
BatchGroupComparison ==
    /\ pc = "records"
    /\ Len(tumor_records) > 0
    /\ Len(normal_records) > 0
    /\ group_comparison_rows' = batch_group_comparison(tumor_records, normal_records)
    /\ group_comparison_locals' =
           GroupComparisonLocals(batch_enrich(tumor_records),
                                 batch_enrich(normal_records), group_comparison_rows')
    /\ pc' = "group_done"
    /\ UNCHANGED <<tumor_records, normal_records, enrich_rows, compare_results,
                   enrich_locals, analysis_results, analysis_locals, exported_results,
                   mtcVars, fisherVars, metaVars, pipeVars>>

CompareGroups ==
    /\ pc = "records"
    /\ \E order \in IterationOrders(all_mods(tumor_records, normal_records)) :
           compare_results' = compare_groups(tumor_records, normal_records, order)
    /\ pc' = "compare_done"
    /\ UNCHANGED <<tumor_records, normal_records, enrich_rows, group_comparison_rows,
                   enrich_locals, group_comparison_locals,
                   analysis_results, analysis_locals, exported_results,
                   mtcVars, fisherVars, metaVars, pipeVars>>

\* enrichment_results = enrichment_analysis(records)
EnrichmentAnalysis ==
    /\ pc = "records"
    /\ analysis_locals' = AnalysisLocals(mod_counts(tumor_records))
    /\ analysis_results' = enrichment_analysis(tumor_records)
    /\ pc' = "analysis_done"
    /\ UNCHANGED <<tumor_records, normal_records, enrich_rows, group_comparison_rows,
                   compare_results, enrich_locals, group_comparison_locals,
                   exported_results, mtcVars, fisherVars, metaVars, pipeVars>>

\* export_group_comparison_results(comparison_results, comparison_file), up
\* to the writing of the file
ExportGroupComparisonResults ==
    /\ pc = "compare_done"
    /\ exported_results' = export_group_comparison_results(compare_results)
    /\ pc' = "export_done"
    /\ UNCHANGED <<tumor_records, normal_records, enrich_rows, group_comparison_rows,
                   compare_results, enrich_locals, group_comparison_locals,
                   analysis_results, analysis_locals,
                   mtcVars, fisherVars, metaVars, pipeVars>>

NextRecords ==
    \/ BatchEnrich
    \/ BatchGroupComparison
    \/ CompareGroups
    \/ EnrichmentAnalysis
    \/ ExportGroupComparisonResults

SpecRecords == InitRecords /\ [][NextRecords]_vars

(* compare_groups and the export in float arithmetic, on the records of one *)
(* mod: a group is given by its counts of anchor and non_anchor records     *)

GroupCounts == {0, 1, 3, 5}
RecordsOfCounts(anchor, non_anchor) ==
    [i \in 1..(anchor + non_anchor) |->
        [mod |-> ModOrder[1],
         anchor_tag |-> IF i <= anchor THEN "anchor" ELSE "non_anchor"]] \o <<>>
GroupsOfOneMod == {RecordsOfCounts(a, n) : a \in GroupCounts, n \in GroupCounts}

InitCompareDouble ==
    /\ pc = "records"
    /\ tumor_records \in GroupsOfOneMod
    /\ normal_records \in GroupsOfOneMod
    /\ enrich_rows = <<>>
    /\ group_comparison_rows = <<>>
    /\ compare_results = <<>>
    /\ enrich_locals = <<>>
    /\ group_comparison_locals = <<>>
    /\ analysis_results = <<>>
    /\ analysis_locals = <<>>
    /\ exported_results = <<>>
    /\ IdleMTC
    /\ IdleFisher
    /\ IdleMeta
    /\ IdlePipe

CompareGroupsDouble ==
    /\ pc = "records"
    /\ compare_results' = compare_groups_double(tumor_records, normal_records)
    /\ pc' = "compare_done"
    /\ UNCHANGED <<tumor_records, normal_records, enrich_rows, group_comparison_rows,
                   enrich_locals, group_comparison_locals,
                   analysis_results, analysis_locals, exported_results,
                   mtcVars, fisherVars, metaVars, pipeVars>>

ExportGroupComparisonResultsDouble ==
    /\ pc = "compare_done"
    /\ exported_results' = export_group_comparison_results_double(compare_results)
    /\ pc' = "export_done"
    /\ UNCHANGED <<tumor_records, normal_records, enrich_rows, group_comparison_rows,
                   compare_results, enrich_locals, group_comparison_locals,
                   analysis_results, analysis_locals,
                   mtcVars, fisherVars, metaVars, pipeVars>>

NextCompareDouble == CompareGroupsDouble \/ ExportGroupComparisonResultsDouble

SpecCompareDouble == InitCompareDouble /\ [][NextCompareDouble]_vars

(* the corrector alone and on the export path of the group comparison *)

SpecExport == (InitMTC \/ InitRecords) /\ [][NextMTC \/ NextRecords]_vars

(* the corrector and the engine side by side *)

SpecCorrection == (InitMTC \/ InitMeta) /\ [][NextMTC \/ NextMeta]_vars

-----------------------------------------------------------------------------
(* The claims *)

FdrDone == pc = "mtc_done" /\ method = "fdr"

\* C1: every Benjamini-Hochberg adjusted value is at least its raw p-value,
\* whatever the order of the input list
FdrAdjustedAtLeastRaw ==
    FdrDone => \A i \in 1..Len(p_values) : RLe(p_values[i], corrected[i])

\* C2: the Benjamini-Hochberg adjusted values are non-decreasing in the raw
\* p-value: raw_i <= raw_j implies adjusted_i <= adjusted_j
FdrNonDecreasingInRawOrder ==
    FdrDone => \A i, j \in 1..Len(p_values) :
                  RLe(p_values[i], p_values[j]) => RLe(corrected[i], corrected[j])

\* the reference procedure of C3: the entry of each rank, its candidate
\* p * n / rank, the running minimum from the largest rank down
EntryOfRank(p, r) == CHOOSE i \in 1..Len(p) : SortRank(p, i) = r
CandidateOfRank(p, r) == RDiv(RMul(p[EntryOfRank(p, r)], RInt(Len(p))), RInt(r))
RECURSIVE RunningMinimum(_, _)
RunningMinimum(p, r) ==
    IF r = Len(p) THEN CandidateOfRank(p, r)
    ELSE RMin(CandidateOfRank(p, r), RunningMinimum(p, r + 1))
ReferenceBH(p) == [i \in 1..Len(p) |-> RMin(RunningMinimum(p, SortRank(p, i)), ROne)]

\* C3: the 'fdr' output equals the reference Benjamini-Hochberg procedure for
\* every input list
FdrEqualsReferenceBH ==
    FdrDone => \A i \in 1..Len(p_values) : corrected[i] = ReferenceBH(p_values)[i]

\* adjusted = min(raw * n, 1), on the integers of the two fractions
IsMinRawTimesN(raw, n, adjusted) ==
    /\ IF raw.n * n >= raw.d THEN adjusted = ROne
       ELSE adjusted.n * raw.d = adjusted.d * raw.n * n
    /\ RLe(raw, adjusted)
    /\ RLe(adjusted, ROne)

InUnitInterval(x) == IsFinite(x) /\ RLe(RZero, x) /\ RLe(x, ROne)

\* C4: the Bonferroni adjustment of every entry is exactly min(raw * n, 1),
\* hence raw <= adjusted <= 1, both in multiple_testing_correction and in the
\* p_bonferroni column of meta_analysis_by_mod, n there being the number of
\* pooled modifications of the result table
BonferroniIsMinRawTimesN ==
    /\ (pc = "mtc_done" /\ method = "bonferroni") =>
          /\ Len(corrected) = Len(p_values)
          /\ \A i \in 1..Len(p_values) :
                IsMinRawTimesN(p_values[i], Len(p_values), corrected[i])
    /\ pc = "meta_done" =>
          \A i \in 1..Len(meta_results) :
             InUnitInterval(meta_results[i].p_value) =>
                IsMinRawTimesN(meta_results[i].p_value,
                               Cardinality({meta_results[j].mod : j \in 1..Len(meta_results)}),
                               meta_results[i].p_bonferroni)

\* C4 happens: a table of two pooled modifications, one p_bonferroni clipped at
\* 1 and one that is twice its raw p-value, below 1
BonferroniWitness ==
    /\ pc = "meta_done"
    /\ Len(meta_results) = 2
    /\ \E i, j \in 1..2 :
          /\ InUnitInterval(meta_results[i].p_value)
          /\ RLt(ROne, RMul(meta_results[i].p_value, RInt(2)))
          /\ meta_results[i].p_bonferroni = ROne
          /\ InUnitInterval(meta_results[j].p_value)
          /\ RLt(RZero, meta_results[j].p_value)
          /\ RLt(meta_results[j].p_bonferroni, ROne)

AllSEPositive(bd) == \A i \in 1..Len(bd) : bd[i].SE.sq # RZero

\* C5: the random-effect p-value is 2 * (1 - Phi(|logOR_R / SE_R|)) of the
\* returned pooled estimate for every k >= 1, and for k = 1 it is the p-value
\* fixed_effect returns for that study
RandomPValueFromPooledEstimate ==
    (pc = "random_done" /\ Len(batch_data) >= 1 /\ AllSEPositive(batch_data)) =>
        /\ random_result[1].p_value
              = TwoSidedP(ZValue(random_result[1].logOR, random_result[1].SE))
        /\ Len(batch_data) = 1 =>
              random_result[1].p_value = fixed_effect(batch_data).p_value

ModsIn(bd) == {bd[i].mod : i \in 1..Len(bd)}

\* C6: a modification with no usable record gets an explicit "no data" row
\* (estimates nan, no batches), it is not left out of the result
NoDataIsReported ==
    pc = "meta_done" =>
        \A mod \in ModsIn(batch_data) :
            Len(ValidGroup(batch_data, mod)) = 0 =>
                \E i \in 1..Len(meta_results) :
                    /\ meta_results[i].mod = mod
                    /\ IsNaN(meta_results[i].logOR)
                    /\ meta_results[i].n_batches = 0

PositiveSERows(bd) == SelectSeq(bd, LAMBDA r : r.SE.sq # RZero)
HasZeroAndPositiveSE(bd) == ~AllSEPositive(bd) /\ Len(PositiveSERows(bd)) >= 1

\* C7: a record with SE = 0 is left out of the pooling: the pooled estimate
\* is the one of the remaining records
ZeroSEIsExcluded ==
    /\ (pc = "fixed_done" /\ HasZeroAndPositiveSE(batch_data)) =>
          /\ fixed_result[1].logOR = fixed_effect(PositiveSERows(batch_data)).logOR
          /\ fixed_result[1].SE = fixed_effect(PositiveSERows(batch_data)).SE
    /\ (pc = "random_done" /\ HasZeroAndPositiveSE(batch_data)) =>
          /\ random_result[1].logOR = random_effect(PositiveSERows(batch_data)).logOR
          /\ random_result[1].SE = random_effect(PositiveSERows(batch_data)).SE

\* the rows of a mod in a table, and the batches they come from
BatchesOf(df, mod) == {df[i].batch_id : i \in {i \in 1..Len(df) : df[i].mod = mod}}
MetaRowsCountBatches(results_df, bd) ==
    \A i \in 1..Len(results_df) :
        /\ results_df[i].n_batches = Cardinality(BatchesOf(bd, results_df[i].mod))
        /\ results_df[i].n_batches >= 2 =>
              random_effect(GroupOf(bd, results_df[i].mod)).df_deg
                  = results_df[i].n_batches - 1

\* C8: in every heterogeneity result of the pipeline, n_batches is the number
\* of distinct batches with records of the modification and the degrees of
\* freedom are n_batches - 1
DfIsDistinctBatchesMinusOne ==
    pc = "done" =>
        /\ MetaRowsCountBatches(tumor_meta_results,
                                OfGroup(Concat(per_batch_results), "Tumor"))
        /\ MetaRowsCountBatches(normal_meta_results,
                                OfGroup(Concat(per_batch_results), "Normal"))
        /\ MetaRowsCountBatches(group_meta_results, Concat(per_batch_group_comparisons))
        /\ \A mod \in DOMAIN heterogeneity_summary :
              LET k == Cardinality(BatchesOf(Concat(per_batch_results), mod))
              IN  /\ heterogeneity_summary[mod].n_batches = k
                  /\ heterogeneity_summary[mod].df = k - 1

HasResults(bid, g) ==
    \E i \in 1..Len(per_batch_results) :
        /\ per_batch_results[i] # <<>>
        /\ per_batch_results[i][1].batch_id = bid
        /\ per_batch_results[i][1].group = g

\* C9: when a step of one batch raises, every other batch still gets its
\* per-batch results, and when a meta-analysis step raises, the meta-analysis
\* of the other group is still computed
FailureDoesNotAbortOthers ==
    pc = "raised" =>
        /\ \A bid \in 1..Len(batch_tables) :
              (failed_batch # 0 /\ bid # failed_batch) =>
                  \A g \in {"Tumor", "Normal"} :
                     Len(OfGroup(batch_tables[bid], g)) > 0 => HasResults(bid, g)
        /\ LET normal_batch_data == OfGroup(Concat(per_batch_results), "Normal")
           IN  (failed_batch = 0 /\ NUnique(normal_batch_data) >= 2) =>
                   normal_meta_results # <<>>

\* C10: fisher_exact_test returns a p-value in [0, 1] for all non-negative
\* integer a, b, c, d
FisherPValueInUnitInterval ==
    pc = "fisher_done" => InUnitInterval(p_value)

\* C10 happens: a table with every cell positive whose p-value is strictly
\* between 0 and 1
FisherWitness ==
    /\ pc = "fisher_done"
    /\ cell.a > 0 /\ cell.b > 0 /\ cell.c > 0 /\ cell.d > 0
    /\ RLt(RZero, p_value) /\ RLt(p_value, ROne)

FisherDone == pc = "fisher_done"
CellTotal == cell.a + cell.b + cell.c + cell.d

\* C11: fisher_exact_test(0, 0, 0, 0) returns exactly 1.0 and evaluates no
\* binomial coefficient (hence no division) on the way
ZeroTotalReturnsOne ==
    (FisherDone /\ CellTotal = 0) =>
        /\ p_value = ROne
        /\ fisher_locals.combinations_calls = {}
        /\ fisher_locals.factorial_args = {}

\* C11 happens: the call on the all-zero table has returned
ZeroTotalWitness ==
    FisherDone /\ cell = [a |-> 0, b |-> 0, c |-> 0, d |-> 0] /\ p_value = ROne

RECURSIVE SumOfProbs(_, _)
SumOfProbs(probs, S) ==
    IF S = {} THEN 0
    ELSE LET x == CHOOSE x \in S : TRUE IN probs[x] + SumOfProbs(probs, S \ {x})

Max2(x, y) == IF x > y THEN x ELSE y
Min2(x, y) == IF x < y THEN x ELSE y

\* C12: for total > 0 the loop runs over a' in [max(0, col1 - row2),
\* min(row1, col1)] and the numerators of the point probabilities it evaluates
\* sum to C(total, col1), so the probabilities sum to 1
PointProbabilitiesSumToOne ==
    (FisherDone /\ CellTotal > 0) =>
        /\ DOMAIN fisher_locals.probs
              = Max2(0, (cell.a + cell.c) - (cell.c + cell.d))
                  .. Min2(cell.a + cell.b, cell.a + cell.c)
        /\ SumOfProbs(fisher_locals.probs, DOMAIN fisher_locals.probs) = fisher_locals.den
        /\ fisher_locals.den > 0

\* C12 happens: a table whose loop has at least three points, each of
\* positive probability
SumToOneWitness ==
    /\ FisherDone
    /\ Cardinality(DOMAIN fisher_locals.probs) >= 3
    /\ \A x \in DOMAIN fisher_locals.probs : fisher_locals.probs[x] > 0

HasZeroMargin ==
    \/ cell.a + cell.b = 0
    \/ cell.c + cell.d = 0
    \/ cell.a + cell.c = 0
    \/ cell.b + cell.d = 0

\* C14: when a row margin or a column margin is zero and total > 0, the loop
\* has a single point and fisher_exact_test returns 1.0
ZeroMarginReturnsOne ==
    (FisherDone /\ CellTotal > 0 /\ HasZeroMargin) =>
        /\ Cardinality(DOMAIN fisher_locals.probs) = 1
        /\ p_value = ROne

\* C14 happens: the table a = 0, b = 0, c = 5, d = 5
ZeroMarginWitness ==
    FisherDone /\ cell = [a |-> 0, b |-> 0, c |-> 5, d |-> 5] /\ p_value = ROne

\* the a' of the loop whose point probability is at most the observed one,
\* compared exactly
AtMostObserved ==
    {a_test \in DOMAIN fisher_locals.probs :
        BigLe(fisher_locals.probs[a_test], fisher_locals.observed)}

\* C13: for total > 0 the returned value is the sum of P(a') over exactly the
\* feasible a' with P(a') <= P(a), the observed a among them, so that the
\* result is at least P(a) > 0
TwoSidedSumOverAtMostObserved ==
    (FisherDone /\ CellTotal > 0) =>
        /\ fisher_locals.summed = AtMostObserved
        /\ cell.a \in fisher_locals.summed
        /\ p_value.den = fisher_locals.den
        /\ p_value.num = BigSumOver(fisher_locals.probs, AtMostObserved)
        /\ BigLe(fisher_locals.observed, p_value.num)
        /\ fisher_locals.observed # <<>>

\* C15: the binomial coefficients are computed by a stable route (log-space
\* or incremental ratios), not from raw factorials of the margins: the call
\* evaluates no factorial
NoRawFactorials ==
    FisherDone => fisher_locals.factorial_args = {}

EnrichDone == pc = "enrich_done"
GroupDone == pc = "group_done"
CompareDone == pc = "compare_done"

PositiveFinite(x) == x.d > 0 /\ x.n > 0

EnrichLocalIsSafe(l, row) ==
    /\ PositiveFinite(l.a_corr) /\ PositiveFinite(l.n_corr)
    /\ PositiveFinite(l.rest_a_corr) /\ PositiveFinite(l.rest_n_corr)
    /\ PositiveFinite(l.or_)
    /\ PositiveFinite(l.se.sq)
    /\ IsFinite(row.logOR) /\ row.SE = l.se

GroupLocalIsSafe(l, row) ==
    /\ PositiveFinite(l.a_t) /\ PositiveFinite(l.n_t)
    /\ PositiveFinite(l.a_n) /\ PositiveFinite(l.n_n)
    /\ PositiveFinite(l.group_or)
    /\ PositiveFinite(l.group_se.sq)
    /\ IsFinite(row.group_logOR) /\ row.group_SE = l.group_se

\* C16: in batch_enrich and batch_group_comparison every corrected count
\* (count + 0.5) is > 0, the odds ratio is a strictly positive finite number,
\* and logOR and SE are finite: nothing is divided by zero and no logarithm of
\* zero is taken, whatever cells of the table are empty
CorrectedCountsGiveFiniteEffect ==
    /\ EnrichDone =>
           /\ Len(enrich_locals) = Len(enrich_rows)
           /\ \A i \in 1..Len(enrich_rows) :
                  EnrichLocalIsSafe(enrich_locals[i], enrich_rows[i])
    /\ GroupDone =>
           /\ Len(group_comparison_locals) = Len(group_comparison_rows)
           /\ \A i \in 1..Len(group_comparison_rows) :
                  GroupLocalIsSafe(group_comparison_locals[i], group_comparison_rows[i])

\* a batch_enrich row whose table has an empty cell in each diagonal
EmptyCellsWitness ==
    /\ EnrichDone
    /\ \E i \in 1..Len(enrich_rows) :
           /\ enrich_rows[i].a = 0 /\ enrich_rows[i].rest_n = 0
           /\ enrich_rows[i].n > 0

\* (2a + 1)(2 rest_n + 1) / ((2n + 1)(2 rest_a + 1))
ClosedFormOR(a, n, rest_a, rest_n) ==
    Rat((2 * a + 1) * (2 * rest_n + 1), (2 * n + 1) * (2 * rest_a + 1))

\* 1/(a + 0.5) + 1/(n + 0.5) + 1/(rest_a + 0.5) + 1/(rest_n + 0.5)
ClosedFormSESquared(a, n, rest_a, rest_n) ==
    RSum(<<Rat(2, 2 * a + 1), Rat(2, 2 * n + 1),
           Rat(2, 2 * rest_a + 1), Rat(2, 2 * rest_n + 1)>>)

\* C17: the odds ratio batch_enrich computes for a table (a, n, rest_a, rest_n)
\* is (2a + 1)(2 rest_n + 1) / ((2n + 1)(2 rest_a + 1)) and its squared SE is
\* the sum of 1/(count + 0.5) over the four cells; for a = 10, n = 5,
\* rest_a = 3, rest_n = 20 the odds ratio is (10.5 * 20.5) / (5.5 * 3.5)
OddsRatioAndSEInClosedForm ==
    EnrichDone =>
        /\ \A i \in 1..Len(enrich_rows) :
               LET r == enrich_rows[i]
               IN  /\ enrich_locals[i].or_ = ClosedFormOR(r.a, r.n, r.rest_a, r.rest_n)
                   /\ enrich_locals[i].se.sq =
                          ClosedFormSESquared(r.a, r.n, r.rest_a, r.rest_n)
        /\ OddsRatio(10, 5, 3, 20) = RDiv(RMul(Rat(21, 2), Rat(41, 2)),
                                          RMul(Rat(11, 2), Rat(7, 2)))

\* a batch_enrich row of the table (1, 0, 0, 1), whose odds ratio is 9
OddsRatioWitness ==
    /\ EnrichDone
    /\ \E i \in 1..Len(enrich_rows) :
           /\ enrich_rows[i].a = 1 /\ enrich_rows[i].n = 0
           /\ enrich_rows[i].rest_a = 0 /\ enrich_rows[i].rest_n = 1
           /\ enrich_locals[i].or_ = RInt(9)

\* the number of records of df that satisfy a condition
NumberOf(df, Cond(_)) == Cardinality({i \in 1..Len(df) : Cond(df[i])})

RowsOfMod(rows, mod) == {i \in 1..Len(rows) : rows[i].mod = mod}

\* the row of mod m holds the four counts of the definition
RowCountsRecords(df, r) ==
    /\ r.a = NumberOf(df, LAMBDA x : x.mod = r.mod /\ x.anchor_tag = "anchor")
    /\ r.n = NumberOf(df, LAMBDA x : x.mod = r.mod /\ x.anchor_tag = "non_anchor")
    /\ r.rest_a = NumberOf(df, LAMBDA x : x.mod # r.mod /\ x.anchor_tag = "anchor")
    /\ r.rest_n = NumberOf(df, LAMBDA x : x.mod # r.mod /\ x.anchor_tag = "non_anchor")
    /\ r.a >= 0 /\ r.n >= 0 /\ r.rest_a >= 0 /\ r.rest_n >= 0
    /\ r.a + r.n + r.rest_a + r.rest_n = Len(df)

\* C18: batch_enrich emits exactly one row for every mod observed in the
\* records (and no other row), with a, n the anchor and non_anchor records of
\* the mod and rest_a, rest_n those of all other mods; the four counts are
\* >= 0 and add up to the number of records, also when no record is anchor or
\* none is non_anchor
OneRowPerModWithItsCounts ==
    EnrichDone =>
        /\ \A i \in 1..Len(enrich_rows) : enrich_rows[i].mod \in TblIndex(tumor_records)
        /\ \A mod \in TblIndex(tumor_records) :
               Cardinality(RowsOfMod(enrich_rows, mod)) = 1
        /\ \A i \in 1..Len(enrich_rows) : RowCountsRecords(tumor_records, enrich_rows[i])

\* batch_enrich returned for records of two mods none of which is anchor
NoAnchorRecordsWitness ==
    /\ EnrichDone
    /\ Len(enrich_rows) = 2
    /\ ~TblHasColumn(tumor_records, "anchor")
    /\ enrich_rows[1].rest_n = 1 /\ enrich_rows[1].n = 1

\* [[tumor-anchor, tumor-non-anchor], [normal-anchor, normal-non-anchor]] of a
\* mod, counted from the records
TableOfMod(mod) ==
    <<<<NumberOf(tumor_records, LAMBDA x : x.mod = mod /\ x.anchor_tag = "anchor"),
        NumberOf(tumor_records, LAMBDA x : x.mod = mod /\ x.anchor_tag = "non_anchor")>>,
      <<NumberOf(normal_records, LAMBDA x : x.mod = mod /\ x.anchor_tag = "anchor"),
        NumberOf(normal_records, LAMBDA x : x.mod = mod /\ x.anchor_tag = "non_anchor")>>>>

UnionOfMods == TblIndex(tumor_records) \cup TblIndex(normal_records)

OneRowPerModOfUnion(rows) ==
    /\ \A i \in 1..Len(rows) : rows[i].mod \in UnionOfMods
    /\ \A mod \in UnionOfMods : Cardinality(RowsOfMod(rows, mod)) = 1

\* C19: a tumor-vs-normal comparison yields exactly one row for every mod of
\* the tumor or the normal records, and the row's table is
\* [[tumor-anchor, tumor-non-anchor], [normal-anchor, normal-non-anchor]], a
\* group without the mod contributing zeros; for batch_group_comparison and
\* for compare_groups
ComparisonTableOverUnion ==
    /\ GroupDone =>
           /\ OneRowPerModOfUnion(group_comparison_rows)
           /\ \A i \in 1..Len(group_comparison_rows) :
                  LET r == group_comparison_rows[i]
                      table == group_comparison_locals[i].table
                  IN  /\ group_comparison_locals[i].mod = r.mod
                      /\ table = TableOfMod(r.mod)
                      /\ r.total_tumor = table[1][1] + table[1][2]
                      /\ r.total_normal = table[2][1] + table[2][2]
    /\ CompareDone =>
           /\ OneRowPerModOfUnion(compare_results)
           /\ \A i \in 1..Len(compare_results) :
                  LET r == compare_results[i]
                  IN  <<<<r.t_anchor, r.t_non>>, <<r.n_anchor, r.n_non>>>> =
                          TableOfMod(r.mod)

\* batch_group_comparison returned for a tumor group with one mod only and a
\* normal group with the other mod only
DisjointModsWitness ==
    /\ GroupDone
    /\ Len(group_comparison_rows) = 2
    /\ TblIndex(tumor_records) = {"m1"}
    /\ TblIndex(normal_records) = {"m2"}
    /\ group_comparison_locals[1].table[2] = <<0, 0>>
    /\ group_comparison_locals[2].table[1] = <<0, 0>>

FixedDone == pc = "fixed_done"

\* in exact arithmetic fixed_effect applied to a single study (k = 1) whose SE
\* is > 0 returns that study's own logOR and SE: (w * x) / w = x and
\* sqrt(1 / (1 / SE^2)) = SE
FixedEffectOfSingleStudy ==
    (FixedDone /\ Len(batch_data) = 1 /\ RLt(RZero, batch_data[1].SE.sq)) =>
        /\ fixed_result[1].logOR = batch_data[1].logOR
        /\ fixed_result[1].SE = batch_data[1].SE

\* fixed_effect returned for the single study logOR = -1, SE = 1/2
SingleStudyWitness ==
    /\ FixedDone
    /\ Len(batch_data) = 1
    /\ batch_data[1].logOR = RInt(-1)
    /\ batch_data[1].SE = Sqrt(Rat(1, 4))
    /\ fixed_result[1].logOR = RInt(-1)
    /\ fixed_result[1].SE = Sqrt(Rat(1, 4))

RandomDone == pc = "random_done"

\* the records logOR = [0.5, 0.8, 0.3], SE = [0.2, 0.3, 0.25]
ThreeStudies ==
    <<[mod |-> "m1", logOR |-> Rat(1, 2), SE |-> Sqrt(Rat(1, 25))],
      [mod |-> "m1", logOR |-> Rat(4, 5), SE |-> Sqrt(Rat(9, 100))],
      [mod |-> "m1", logOR |-> Rat(3, 10), SE |-> Sqrt(Rat(1, 16))]>>

\* without excess heterogeneity the random-effect estimate is the fixed one
NoExcessMeansFixed(df, r) ==
    /\ IsFinite(r.tau2) /\ RLe(RZero, r.tau2)
    /\ RLe(r.Q, RInt(Len(df) - 1)) =>
           /\ r.tau2 = RZero
           /\ r.logOR = fixed_effect(df).logOR
           /\ r.SE = fixed_effect(df).SE

\* C21: for k >= 2 records with SE > 0 random_effect returns tau2 >= 0, and
\* whenever Q <= k - 1 it returns tau2 = 0 and the pooled logOR and SE of
\* fixed_effect on the same records (as for logOR = [0.5, 0.8, 0.3],
\* SE = [0.2, 0.3, 0.25])
Tau2ZeroGivesFixedEstimate ==
    (RandomDone /\ Len(batch_data) >= 2 /\ AllSEPositive(batch_data)) =>
        /\ NoExcessMeansFixed(batch_data, random_result[1])
        /\ NoExcessMeansFixed(ThreeStudies, random_effect(ThreeStudies))
        /\ RLe(random_effect(ThreeStudies).Q, RInt(2))

\* random_effect returned for two studies with 0 < Q <= 1
NoExcessWitness ==
    /\ RandomDone
    /\ Len(batch_data) = 2
    /\ AllSEPositive(batch_data)
    /\ RLt(RZero, random_result[1].Q)
    /\ RLt(random_result[1].Q, ROne)
    /\ random_result[1].tau2 = RZero
    /\ random_result[1].logOR = fixed_effect(batch_data).logOR

SummaryDone == pc = "summary_done"

InPercentRange(x) == IsFinite(x) /\ RLe(RZero, x) /\ RLe(x, RInt(100))

\* 0 when Q <= df or Q = 0, (Q - df) / Q * 100 otherwise
I2FromQ(Q, df, I2) ==
    IF RLe(Q, RInt(df)) \/ Q = RZero THEN I2 = RZero
    ELSE I2 = RMul(RDiv(RSub(Q, RInt(df)), Q), RInt(100))

\* C22: the I2 returned by random_effect and by summarize_batch_heterogeneity
\* lies in [0, 100] for all records with SE > 0: it is 0 when Q <= df or
\* Q = 0, and (Q - df) / Q * 100 otherwise
I2IsAPercentage ==
    /\ (RandomDone /\ AllSEPositive(batch_data)) =>
           /\ InPercentRange(random_result[1].I2)
           /\ I2FromQ(random_result[1].Q, random_result[1].df_deg, random_result[1].I2)
    /\ SummaryDone =>
           \A mod \in DOMAIN summary :
               AllSEPositive(GroupOf(batch_data, mod)) =>
                   /\ InPercentRange(summary[mod].I2)
                   /\ NoMissing(GroupOf(batch_data, mod)) =>
                          I2FromQ(summary[mod].Q, summary[mod].df, summary[mod].I2)

\* summarize_batch_heterogeneity returned for logOR = [-1, 1], SE = 1/2, where
\* Q = 8 and I2 = 87.5
HeterogeneousWitness ==
    /\ SummaryDone
    /\ "m1" \in DOMAIN summary
    /\ AllSEPositive(GroupOf(batch_data, "m1"))
    /\ summary["m1"].Q = RInt(8)
    /\ summary["m1"].I2 = Rat(175, 2)

\* C23: random_effect applied to a single study returns that study's own
\* logOR and SE with tau2 = 0, I2 = 0 and Q = 0, and evaluates neither the
\* tau2 nor the I2 formula (whose divisor would be 0 when df = 0)
RandomEffectOfSingleStudy ==
    (RandomDone /\ Len(batch_data) = 1) =>
        /\ random_result[1].logOR = batch_data[1].logOR
        /\ random_result[1].SE = batch_data[1].SE
        /\ random_result[1].tau2 = RZero
        /\ random_result[1].I2 = RZero
        /\ random_result[1].Q = RZero
        /\ random_locals.evaluated = {}
        /\ random_locals.tau2_divisor # RZero

\* random_effect returned for the single study logOR = 1, SE = 1/2
SingleRandomStudyWitness ==
    /\ RandomDone
    /\ Len(batch_data) = 1
    /\ batch_data[1].logOR = ROne
    /\ batch_data[1].SE = Sqrt(Rat(1, 4))
    /\ random_result[1].logOR = ROne
    /\ random_result[1].SE = Sqrt(Rat(1, 4))
    /\ random_locals = NoRandomLocals

AnalysisDone == pc = "analysis_done"

\* the orders in which len records can be processed
ProcessingOrders(len) ==
    {f \in [1..len -> 1..len] : \A i, j \in 1..len : i # j => f[i] # f[j]}

Permuted(records, f) == [i \in 1..Len(records) |-> records[f[i]]] \o <<>>

RowSet(rows) == {rows[i] : i \in 1..Len(rows)}

OfMod(records, mod) == SelectSeq(records, LAMBDA r : r.mod = mod)

\* the dictionaries the counting loop builds over all processing orders
CountsInEveryOrder(records) ==
    {mod_counts(Permuted(records, f)) : f \in ProcessingOrders(Len(records))}

\* the tables and results of enrichment_analysis are those of every other
\* processing order
AnalysisIsOrderFree ==
    \A counts \in CountsInEveryOrder(tumor_records) :
        /\ RowSet(AnalysisLocals(counts)) = RowSet(analysis_locals)
        /\ RowSet(SortByP(AnalysisResults(AnalysisLocals(counts))))
               = RowSet(analysis_results)

ComparisonMatches(tumor_dicts, normal_dicts) ==
    \A t \in tumor_dicts :
        \A n \in normal_dicts :
            /\ KeysOf(t) \cup KeysOf(n)
                   = RowSet([i \in 1..Len(compare_results) |-> compare_results[i].mod])
            /\ \A i \in 1..Len(compare_results) :
                   compare_results[i] =
                       ComparisonFromCounts(compare_results[i].mod,
                                            CountsOfMod(t, compare_results[i].mod),
                                            CountsOfMod(n, compare_results[i].mod))

\* the results of compare_groups are those of every other processing order of
\* the two groups
ComparisonIsOrderFree ==
    ComparisonMatches(CountsInEveryOrder(tumor_records),
                      CountsInEveryOrder(normal_records))

\* the result of a mod is the one compare_groups gives for the records of
\* that mod alone
ComparisonIsPerMod ==
    \A i \in 1..Len(compare_results) :
        compare_results[i] =
            ComparisonOf(OfMod(tumor_records, compare_results[i].mod),
                         OfMod(normal_records, compare_results[i].mod),
                         compare_results[i].mod)

\* C24: the per-mod counts and p-values of enrichment_analysis and of
\* compare_groups are the same for every order in which the records are
\* processed, and the result compare_groups gives for one mod does not depend
\* on the other mods present
CountsAreOrderIndependent ==
    /\ AnalysisDone => AnalysisIsOrderFree
    /\ CompareDone => ComparisonIsOrderFree /\ ComparisonIsPerMod

\* compare_groups returned for two groups of two records each, the mods of
\* the tumor group met in the opposite order in the normal group
OrderWitness ==
    /\ CompareDone
    /\ tumor_records = <<[mod |-> "m2", anchor_tag |-> "anchor"],
                         [mod |-> "m1", anchor_tag |-> "non_anchor"]>>
    /\ normal_records = <<[mod |-> "m1", anchor_tag |-> "anchor"],
                          [mod |-> "m1", anchor_tag |-> "non_anchor"]>>
    /\ Len(compare_results) = 2

ExportDone == pc = "export_done"

IsAscending(p) == \A i \in 1..(Len(p) - 1) : RLe(p[i], p[i + 1])

FdrIsReference(p, adjusted) ==
    /\ Len(adjusted) = Len(p)
    /\ \A i \in 1..Len(p) : adjusted[i] = ReferenceBH(p)[i]

\* C25: for p-values already in ascending order the 'fdr' output of
\* multiple_testing_correction equals the reference Benjamini-Hochberg values
\* (running minimum from the largest rank down, clipped to 1); the list
\* export_group_comparison_results passes is the p_group-sorted list of
\* compare_groups, so its p_fdr column is the reference
FdrOfAscendingIsReferenceBH ==
    /\ (FdrDone /\ IsAscending(p_values)) => FdrIsReference(p_values, corrected)
    /\ ExportDone =>
           /\ IsAscending(PGroupsOf(exported_results))
           /\ PGroupsOf(exported_results) = PGroupsOf(compare_results)
           /\ FdrIsReference(PGroupsOf(exported_results),
                             [i \in 1..Len(exported_results) |->
                                 exported_results[i].p_fdr])

\* the corrector returned for the ascending list 1/4, 3/4, 3/4, where the
\* candidate of rank 2 (9/8, clipped to 1) is lowered to the 3/4 of rank 3
AscendingWitness ==
    /\ FdrDone
    /\ p_values = <<Rat(1, 4), Rat(3, 4), Rat(3, 4)>>
    /\ corrected[2] = Rat(3, 4)
    /\ corrected[3] = Rat(3, 4)

\* the mods of a table with at least two rows
ModsWithTwoRows(bd) == {mod \in ModsIn(bd) : Len(GroupOf(bd, mod)) >= 2}

\* a summary entry carries the heterogeneity random_effect computes and the
\* pooled logOR fixed_effect computes for the same group
SummaryAgreesWithMeta(entry, group) ==
    /\ entry.Q = random_effect(group).Q
    /\ entry.I2 = random_effect(group).I2
    /\ entry.tau2 = random_effect(group).tau2
    /\ entry.mean_logOR = fixed_effect(group).logOR
    /\ entry.n_batches = Len(group)

\* C26: for the same group of k >= 2 records with SE > 0,
\* summarize_batch_heterogeneity and random_effect compute the same Q, I2 and
\* tau2, and the summary's mean_logOR is fixed_effect's pooled logOR; a mod
\* with fewer than 2 rows has no entry in the summary
SummaryEqualsRandomEffect ==
    SummaryDone =>
        /\ DOMAIN summary = ModsWithTwoRows(batch_data)
        /\ \A mod \in DOMAIN summary :
               (AllSEPositive(GroupOf(batch_data, mod))
                    /\ NoMissing(GroupOf(batch_data, mod))) =>
                   SummaryAgreesWithMeta(summary[mod], GroupOf(batch_data, mod))

\* the summary of three rows of one mod with tau2 > 0
HeterogeneousSummaryWitness ==
    /\ SummaryDone
    /\ Len(batch_data) = 3
    /\ DOMAIN summary = {"m1"}
    /\ AllSEPositive(batch_data)
    /\ RLt(RZero, summary["m1"].tau2)
    /\ summary["m1"].tau2 = random_effect(batch_data).tau2
    /\ summary["m1"].Q = random_effect(batch_data).Q

\* the 2x2 table of a mod as a tuple
TableOfLocal(l) == <<l.anchor, l.non_anchor, l.other_anchor, l.other_non_anchor>>
TableOfRow(r) == <<r.a, r.n, r.rest_a, r.rest_n>>

TablesByMod(rows, Table(_)) == {<<rows[i].mod, Table(rows[i])>> : i \in 1..Len(rows)}

\* C27: for the same records, the table enrichment_analysis builds for a mod
\* (anchor, non_anchor, other_anchor, other_non_anchor, the rest summed over
\* the other mods) equals the table batch_enrich builds (a, n, rest_a, rest_n,
\* the rest as column total minus own count), for every mod
AnalysisTableEqualsBatchTable ==
    (AnalysisDone /\ Len(tumor_records) > 0) =>
        TablesByMod(analysis_locals, TableOfLocal)
            = TablesByMod(batch_enrich(tumor_records), TableOfRow)

\* enrichment_analysis returned for records of two mods, the rest arm of m1
\* holding the one non_anchor record of m2
RestArmWitness ==
    /\ AnalysisDone
    /\ Len(analysis_locals) = 2
    /\ \E i \in 1..2 :
           /\ analysis_locals[i].mod = "m1"
           /\ TableOfLocal(analysis_locals[i]) = <<1, 0, 0, 1>>


\* fisher_exact_test has returned in float arithmetic
FisherDoubleDone == pc = "fisher_done" /\ fisher_locals # NoLocals

\* C28: fisher_exact_test(a, b, c, d) equals its value on the transposed
\* table (a, c, b, d), on the table with the rows swapped (c, d, a, b) and on
\* the table with the columns swapped (b, a, d, c), for all non-negative
\* integers
FisherIsSymmetric ==
    FisherDoubleDone =>
        /\ p_value = fisher_exact_test_double(cell.a, cell.c, cell.b, cell.d)
        /\ p_value = fisher_exact_test_double(cell.c, cell.d, cell.a, cell.b)
        /\ p_value = fisher_exact_test_double(cell.b, cell.a, cell.d, cell.c)

FixedDoubleDone == pc = "fixed_done" /\ fixed_result # <<>> /\ batch_data \in DoubleTables
RandomDoubleDone == pc = "random_done" /\ random_result # <<>> /\ batch_data \in DoubleTables

\* the smallest and the largest logOR of the studies
MinLogOR(df) ==
    CHOOSE x \in {df[i].logOR : i \in 1..Len(df)} :
        \A i \in 1..Len(df) : SignedLe(x, df[i].logOR)
MaxLogOR(df) ==
    CHOOSE x \in {df[i].logOR : i \in 1..Len(df)} :
        \A i \in 1..Len(df) : SignedLe(df[i].logOR, x)
Between(x, df) == SignedLe(MinLogOR(df), x) /\ SignedLe(x, MaxLogOR(df))

\* C29: for k >= 2 records with SE > 0 the pooled SE of random_effect is >= the pooled SE of fixed_effect on the same records, and the pooled logOR of both lies between the smallest and the largest logOR of the studies
PooledWithinStudies ==
    (RandomDoubleDone /\ Len(batch_data) >= 2) =>
        /\ SignedLe(fixed_effect_double(batch_data).SE, random_result[1].SE)
        /\ Between(random_result[1].logOR, batch_data)
        /\ Between(fixed_effect_double(batch_data).logOR, batch_data)

\* C20: fixed_effect on a single study (k = 1) with SE > 0 returns the logOR and the SE of that study unchanged, in the arithmetic of the code
SingleStudyUnchanged ==
    (FixedDoubleDone /\ Len(batch_data) = 1) =>
        /\ fixed_result[1].logOR = batch_data[1].logOR
        /\ fixed_result[1].SE = batch_data[1].SE

ExportDoubleDone ==
    pc = "export_done" /\ tumor_records \in GroupsOfOneMod /\ exported_results # <<>>

\* C30: whenever t_anchor, t_non, n_anchor and n_non are all positive the enrichment_ratio of compare_groups equals the odds_ratio of calculate_effect_size for the same counts, and whenever t_anchor = 0 both are 0
EnrichmentRatioIsOddsRatio ==
    ExportDoubleDone =>
        \A i \in 1..Len(exported_results) :
            /\ (/\ exported_results[i].t_anchor > 0
                /\ exported_results[i].t_non > 0
                /\ exported_results[i].n_anchor > 0
                /\ exported_results[i].n_non > 0)
                   => exported_results[i].enrichment_ratio = exported_results[i].odds_ratio
            /\ exported_results[i].t_anchor = 0
                   => /\ exported_results[i].enrichment_ratio = SignedZero
                      /\ exported_results[i].odds_ratio = SignedZero


=============================================================================
